---- MODULE Spec2Model ----
(***************************************************************************)
(* Verification model of the similarity-search and collage-synthesis core  *)
(* of personal-voice-tts-ai: the segment cache (core/synthesis/cache.py),  *)
(* the shared match filter (algorithms/base.py), the segment post-         *)
(* processing (core/similarity/matcher.py), the algorithm registry,        *)
(* ensemble and benchmark (core/similarity/manager.py), the synthesis      *)
(* pipeline (core/synthesis/engine.py), the crossfades                     *)
(* (core/synthesis/blending.py) and the DTW distance                       *)
(* (algorithms/traditional/mfcc.py).                                       *)
(*                                                                         *)
(* Times are integers: cache times count tenths of a microsecond, match    *)
(* times count tenths of a second.  Similarities and confidences are       *)
(* integers in hundredths.  Quotients the code computes in floating point  *)
(* are kept as exact fractions [num, den].                                 *)
(***************************************************************************)
EXTENDS Integers, Sequences, FiniteSets, TLC

\* Python's None, where a tuple or a list is expected.
None == <<>>

(***************************************************************************)
(* State.                                                                  *)
(***************************************************************************)
VARIABLES
    \* one SegmentCache and its caller
    max_size,   \* SegmentCache.max_size
    cache,      \* SegmentCache.cache: << [key, buf, rate] >>, oldest first
    hits,       \* SegmentCache.hits
    misses,     \* SegmentCache.misses
    heap,       \* contents of every numpy array, by reference
    ret,        \* what the caller's last get returned: <<array, rate>> or None
    recency,    \* history: live keys, least recently touched first
    lastOp,     \* history: the last cache operation and its outcome
    \* threads inside SegmentCache.get and SegmentCache.put
    tpc,        \* per thread: the statement of get or put it is about to run
    tkey,       \* per thread: the local variable key
    toldest,    \* per thread: the local variable oldest_key of put
    terr,       \* per thread: the exception its call raised, or "none"
    \* one call of a function on match lists
    callArgs,   \* the arguments of the call under way, or None
    callResult, \* what the call returned or raised, or None
    callPc,     \* "idle", "ready" (called, not yet run) or "done"
    \* one AlgorithmManager
    _algorithms, \* AlgorithmManager._algorithms: << [name, algorithm] >>, a dict
    registered, \* history: per name, the instance last passed to register
    \* one CollageEngine.synthesize call (its arguments are in callArgs)
    stages,      \* history: the stages that ran, in order
    progress,    \* history: the fractions passed to progress_callback, in order
    all_matches, \* the local all_matches
    best_match,  \* the local best_match, or None
    segment,     \* what the extractor returned and from where, or None
    adjusted,    \* the local adjusted: the buffer under work, or None
    \* one RandomMatcher and its callers
    rng,         \* RandomMatcher.rng: the state of the seeded generator
    calls,       \* history: arguments and result of every call made, in order
    \* one BatchProcessor inside process_all
    jobs,           \* JobQueue.jobs: the Job objects, in the order added
    futures,        \* the local futures: << [job_id, done] >>, a dict
    completed_jobs, \* the local completed_jobs
    aggregator_results, \* ResultAggregator.results: << [key, value] >>, a dict
    aggregator_errors,  \* ResultAggregator.errors: << [key, value] >>, a dict
    handled,        \* history: the jobs passed to ErrorHandler.handle_error
    submitted,      \* history: per round, the jobs handed to executor.submit
    executed,       \* history: the jobs whose function has run, in order
    batchPc         \* the statement of process_all about to run

cacheVars == <<max_size, cache, hits, misses, heap, ret, recency, lastOp>>

threadVars == <<tpc, tkey, toldest, terr>>

callVars == <<callArgs, callResult, callPc>>

managerVars == <<_algorithms, registered>>

engineVars == <<stages, progress, all_matches, best_match, segment, adjusted>>

randomVars == <<rng, calls>>

batchVars == <<jobs, futures, completed_jobs, aggregator_results,
               aggregator_errors, handled, submitted, executed, batchPc>>

vars == <<cacheVars, threadVars, callVars, managerVars, engineVars, randomVars,
          batchVars>>

\* what a step of the one-caller cache, of a cache thread, of a call on
\* match lists, of the manager, of the engine leaves alone
CacheStep == UNCHANGED <<threadVars, callVars, managerVars, engineVars, randomVars, batchVars>>

ThreadStep == UNCHANGED <<callVars, managerVars, engineVars, randomVars, batchVars>>

CallStep == UNCHANGED <<cacheVars, threadVars, managerVars, engineVars, randomVars, batchVars>>

ManagerStep == UNCHANGED <<cacheVars, threadVars, engineVars, randomVars, batchVars>>

EngineStep == UNCHANGED <<cacheVars, threadVars, managerVars, randomVars, batchVars>>

RandomStep == UNCHANGED <<cacheVars, threadVars, callVars, managerVars, engineVars, batchVars>>

BatchStep == UNCHANGED <<cacheVars, threadVars, callVars, managerVars, engineVars, randomVars>>

\* no synthesize call under way
EngineIdle ==
    /\ stages = <<>>
    /\ progress = <<>>
    /\ all_matches = <<>>
    /\ best_match = None
    /\ segment = None
    /\ adjusted = None

\* no RandomMatcher in use
RandomIdle ==
    /\ rng = 0
    /\ calls = <<>>

\* no BatchProcessor in use
BatchIdle ==
    /\ jobs = <<>>
    /\ futures = <<>>
    /\ completed_jobs = {}
    /\ aggregator_results = <<>>
    /\ aggregator_errors = <<>>
    /\ handled = <<>>
    /\ submitted = <<>>
    /\ executed = <<>>
    /\ batchPc = "idle"

(***************************************************************************)
(* Bounds of the model.                                                    *)
(***************************************************************************)
\* largest max_size a SegmentCache is constructed with
MaxCapacity == 3
\* largest number of get requests counted between two clear() calls
MaxRequests == 2
\* number of threads that share one SegmentCache
NumThreads == 2
\* longest list of matches handed to a list operation
MaxMatches == 3
\* largest top_k a caller asks for
MaxTopK == 2
\* number of windows the sliding-window search of one algorithm scores
NumWindows == 2
\* longest list of algorithm names handed to the ensemble
MaxNames == 2
\* longest list of source files handed to synthesize
MaxSources == 2
\* longest list of segments handed to blend_segments
MaxSegments == 3
\* longest segment handed to the blender, in samples
MaxSegmentLength == 3
\* longest configured crossfade, in samples
MaxFade == 3
\* largest number of frames of a feature matrix
MaxFrames == 3
\* largest number of calls made on one RandomMatcher
MaxCalls == 3
\* longest target and longest source handed to a window search, in samples
MaxTargetLength == 4
MaxSourceLength == 5
\* largest number of jobs queued on a BatchProcessor
MaxJobs == 3
\* longest buffer handed to the extractor, in samples
MaxAudioLength == 6

(***************************************************************************)
(* Generic helpers for Python lists and ordered dicts.                     *)
(***************************************************************************)
Range(s) == {s[i] : i \in 1..Len(s)}

Min2(a, b) == IF a <= b THEN a ELSE b

Max2(a, b) == IF a >= b THEN a ELSE b

Abs(x) == IF x < 0 THEN -x ELSE x

\* s[:n] for n >= 0
Take(s, n) == SubSeq(s, 1, Min2(n, Len(s)))

\* the list without its element at position i
RemoveAt(s, i) == SubSeq(s, 1, i - 1) \o SubSeq(s, i + 1, Len(s))

\* sorted(s, key=...): the stable sort of s, where Before(a, b) says that
\* a's key orders strictly before b's
SortBy(s, Before(_, _)) ==
    LET n == Len(s)
        rank(i) ==
            Cardinality({j \in 1..n : \/ Before(s[j], s[i])
                                      \/ (~Before(s[i], s[j]) /\ j < i)}) + 1
    IN  [p \in 1..n |-> s[CHOOSE i \in 1..n : rank(i) = p]]

\* sum(s) of a list of numbers
RECURSIVE SumSeq(_)
SumSeq(s) == IF s = <<>> THEN 0 ELSE Head(s) + SumSeq(Tail(s))

\* the concatenation of a list of lists
RECURSIVE Concat(_)
Concat(ss) == IF ss = <<>> THEN <<>> ELSE Head(ss) \o Concat(Tail(ss))

\* all lists over S of length at most n
SeqsUpTo(S, n) == UNION {[1..k -> S] : k \in 0..n}

\* exact quotients: <<n, d>> stands for n / d, d > 0
FracGT(a, b) == a[1] * b[2] > b[1] * a[2]

FracGE(a, b) == a[1] * b[2] >= b[1] * a[2]

(***************************************************************************)
(* SegmentCache: an OrderedDict key -> (buffer, sample_rate).              *)
(* The ordered dict is a sequence of entries, oldest first.  A buffer is   *)
(* an object on the heap, named by a reference; heap[r] is its contents.   *)
(***************************************************************************)
\* Names of arrays.  A name only tells arrays apart: the array cached under
\* key k is SlotRef(k); an array the cache dropped while the caller still
\* holds it is DetachedRef; the caller's own segment is CallerRef.
CallerRef == <<"caller">>

DetachedRef == <<"detached">>

SlotRef(key) == <<"slot", key>>

\* None, where an array is expected
NoRef == <<>>

\* contents of a one-sample array
Samples == {0, 1}

SourceFiles == {"a.wav", "b.wav"}

\* the sample rate a source file is decoded at, which its segments are put with
SampleRateOf(source_file) == IF source_file = "a.wav" THEN 16000 ELSE 22050

\* request times, in tenths of a microsecond
StartTimes == {0, 4, 10}

EndTimes == {20}

\* tenths of a microsecond per unit of the sixth decimal of a second
TicksPerMicro == 10

\* f"{t:.6f}": the time rounded to microseconds, ties to even
Fmt6(t) ==
    LET q == t \div TicksPerMicro
        r == t % TicksPerMicro
    IN  IF 2 * r > TicksPerMicro \/ (2 * r = TicksPerMicro /\ q % 2 = 1)
        THEN q + 1
        ELSE q

\* the md5 of the formatted string, taken as collision free
_generate_key(source_file, start_time, end_time) ==
    <<source_file, Fmt6(start_time), Fmt6(end_time)>>

AllKeys ==
    {_generate_key(f, s, e) : f \in SourceFiles, s \in StartTimes, e \in EndTimes}

Refs == {CallerRef, DetachedRef} \cup {SlotRef(k) : k \in AllKeys}

CacheKeys(c) == {c[i].key : i \in 1..Len(c)}

\* position of key in the ordered dict (key is present)
IndexOf(c, key) == CHOOSE i \in 1..Len(c) : c[i].key = key

\* OrderedDict.move_to_end(key)
MoveToEnd(c, key) ==
    LET i == IndexOf(c, key) IN RemoveAt(c, i) \o <<c[i]>>

\* del d[key]
DelKey(c, key) == RemoveAt(c, IndexOf(c, key))

\* d[key] = value: in place for a present key, appended for a new one
SetItem(c, key, buf, rate) ==
    LET e == [key |-> key, buf |-> buf, rate |-> rate]
    IN  IF key \in CacheKeys(c)
        THEN [c EXCEPT ![IndexOf(c, key)] = e]
        ELSE Append(c, e)

\* the array of a (array, rate) tuple that get returned
ArrayOf(t) == IF t = None THEN NoRef ELSE t[1]

\* arrays still referenced by the cache or by the caller holding tuple t
LiveRefs(c, t) ==
    {CallerRef} \cup {c[i].buf : i \in 1..Len(c)} \cup ({ArrayOf(t)} \ {NoRef})

\* unreferenced arrays are collected
Collect(h, c, t) == [x \in Refs |-> IF x \in LiveRefs(c, t) THEN h[x] ELSE 0]

\* the cache drops the arrays of the keys in dropped: one the caller holds
\* lives on under the name DetachedRef
DetachRet(t, dropped) ==
    IF ArrayOf(t) \in {SlotRef(k) : k \in dropped}
    THEN <<DetachedRef, t[2]>>
    ELSE t

DetachHeap(h, t, dropped) ==
    IF ArrayOf(t) \in {SlotRef(k) : k \in dropped}
    THEN [h EXCEPT ![DetachedRef] = h[ArrayOf(t)]]
    ELSE h

\* self.cache[key] for a present key, None for a miss: what get returns
GetReturn(c, key) ==
    IF key \in CacheKeys(c)
    THEN LET e == c[IndexOf(c, key)] IN <<e.buf, e.rate>>
    ELSE None

\* a returned tuple as the caller reads it: (contents, rate)
Deref(h, t) == IF t = None THEN None ELSE <<h[t[1]], t[2]>>

\* what a get of key reads in cache c over heap h
GetResult(c, h, key) == Deref(h, GetReturn(c, key))

\* the history of touches with key moved to most recent
Touch(rec, key) == SelectSeq(rec, LAMBDA k : k # key) \o <<key>>

Forget(rec, keys) == SelectSeq(rec, LAMBDA k : k \notin keys)

NoOp == [op |-> "init", raised |-> FALSE]

InitCache ==
    /\ max_size \in 0..MaxCapacity
    /\ cache = <<>>
    /\ hits = 0
    /\ misses = 0
    /\ heap \in {[x \in Refs |-> IF x = CallerRef THEN v ELSE 0] : v \in Samples}
    /\ ret = None
    /\ recency = <<>>
    /\ lastOp = NoOp

\* SegmentCache.put, lines 109-120, on the ordered dict c
PutEffect(c, key, rate) ==
    LET full    == Len(c) >= max_size
        raises  == full /\ Len(c) = 0
        oldest  == c[1].key
        c1      == IF full THEN DelKey(c, oldest) ELSE c
        c2      == SetItem(c1, key, SlotRef(key), rate)
    IN  [raised  |-> raises,
         evicted |-> IF full /\ ~raises THEN {oldest} ELSE {},
         cache   |-> IF raises THEN c ELSE c2]

Put(source_file, start_time, end_time, sample_rate) ==
    LET key     == _generate_key(source_file, start_time, end_time)
        eff     == PutEffect(cache, key, sample_rate)
        dropped == eff.evicted \cup ({key} \cap CacheKeys(cache))
        r1      == IF eff.raised THEN ret ELSE DetachRet(ret, dropped)
        h1      == IF eff.raised THEN heap
                   ELSE [DetachHeap(heap, ret, dropped)
                            EXCEPT ![SlotRef(key)] = heap[CallerRef]]
    IN  /\ cache' = eff.cache
        /\ ret' = r1
        /\ heap' = Collect(h1, eff.cache, r1)
        /\ recency' = IF eff.raised THEN recency
                      ELSE Touch(Forget(recency, eff.evicted), key)
        /\ lastOp' = [op |-> "put", raised |-> eff.raised]
        /\ UNCHANGED <<max_size, hits, misses>>
        /\ CacheStep

\* SegmentCache.get, lines 72-89
Get(source_file, start_time, end_time) ==
    LET key == _generate_key(source_file, start_time, end_time)
        hit == key \in CacheKeys(cache)
        c1  == IF hit THEN MoveToEnd(cache, key) ELSE cache
        r1  == GetReturn(c1, key)
    IN  /\ hits + misses < MaxRequests
        /\ hits' = IF hit THEN hits + 1 ELSE hits
        /\ misses' = IF hit THEN misses ELSE misses + 1
        /\ cache' = c1
        /\ ret' = r1
        /\ heap' = Collect(heap, c1, r1)
        /\ recency' = IF hit THEN Touch(recency, key) ELSE recency
        /\ lastOp' = [op |-> "get", raised |-> FALSE]
        /\ UNCHANGED max_size
        /\ CacheStep

\* SegmentCache.clear, lines 129-131
Clear ==
    LET r1 == DetachRet(ret, CacheKeys(cache))
    IN  /\ lastOp.op # "clear"
        /\ cache' = <<>>
        /\ hits' = 0
        /\ misses' = 0
        /\ ret' = r1
        /\ heap' = Collect(DetachHeap(heap, ret, CacheKeys(cache)), <<>>, r1)
        /\ recency' = <<>>
        /\ lastOp' = [op |-> "clear", raised |-> FALSE]
        /\ UNCHANGED max_size
        /\ CacheStep

\* the caller writes into an array it holds: its own segment, or the one
\* the last get returned
WriteBuffer(r, v) ==
    /\ r \in {CallerRef, ArrayOf(ret)} \ {NoRef}
    /\ heap[r] # v
    /\ heap' = [heap EXCEPT ![r] = v]
    /\ lastOp' = [op |-> "write", raised |-> FALSE]
    /\ UNCHANGED <<max_size, cache, hits, misses, ret, recency>>
    /\ CacheStep

NextCache ==
    \/ \E f \in SourceFiles, s \in StartTimes, e \in EndTimes :
         Put(f, s, e, SampleRateOf(f))
    \/ \E f \in SourceFiles, s \in StartTimes, e \in EndTimes : Get(f, s, e)
    \/ Clear
    \/ \E r \in Refs, v \in Samples : WriteBuffer(r, v)

(***************************************************************************)
(* SegmentCache called from several threads.  The class takes no lock, so  *)
(* a thread can be preempted between any two operations on the ordered     *)
(* dict; each such operation is one step.                                  *)
(***************************************************************************)
Threads == 1..NumThreads

\* the (source, start, end) requests the threads make
ThreadRequests == {<<"a.wav", 0, 20>>, <<"a.wav", 10, 20>>, <<"b.wav", 0, 20>>}

ThreadsIdle ==
    /\ tpc = [t \in Threads |-> "idle"]
    /\ tkey = [t \in Threads |-> None]
    /\ toldest = [t \in Threads |-> None]
    /\ terr = [t \in Threads |-> "none"]

\* a thread enters get or put: line 72 / line 109
ThreadCall(t, op, source_file, start_time, end_time) ==
    /\ tpc[t] = "idle"
    /\ terr[t] = "none"
    /\ tpc' = [tpc EXCEPT ![t] = op]
    /\ tkey' = [tkey EXCEPT ![t] = _generate_key(source_file, start_time, end_time)]
    /\ UNCHANGED <<cacheVars, toldest, terr>>
    /\ ThreadStep

\* get, line 74 with the counter update of line 76 or 85
ThreadGetTest(t) ==
    /\ tpc[t] = "get"
    /\ hits + misses < MaxRequests
    /\ IF tkey[t] \in CacheKeys(cache)
       THEN /\ hits' = hits + 1
            /\ tpc' = [tpc EXCEPT ![t] = "get_move"]
            /\ UNCHANGED misses
       ELSE /\ misses' = misses + 1
            /\ tpc' = [tpc EXCEPT ![t] = "idle"]
            /\ UNCHANGED hits
    /\ UNCHANGED <<max_size, cache, heap, ret, recency, lastOp, tkey, toldest, terr>>
    /\ ThreadStep

\* get, line 78: move_to_end raises KeyError for a key that is gone
ThreadGetMove(t) ==
    /\ tpc[t] = "get_move"
    /\ IF tkey[t] \in CacheKeys(cache)
       THEN /\ cache' = MoveToEnd(cache, tkey[t])
            /\ tpc' = [tpc EXCEPT ![t] = "get_read"]
            /\ UNCHANGED terr
       ELSE /\ terr' = [terr EXCEPT ![t] = "KeyError"]
            /\ tpc' = [tpc EXCEPT ![t] = "idle"]
            /\ UNCHANGED cache
    /\ UNCHANGED <<max_size, hits, misses, heap, ret, recency, lastOp, tkey, toldest>>
    /\ ThreadStep

\* get, line 82: self.cache[key] raises KeyError for a key that is gone
ThreadGetRead(t) ==
    /\ tpc[t] = "get_read"
    /\ terr' = [terr EXCEPT ![t] =
                  IF tkey[t] \in CacheKeys(cache) THEN "none" ELSE "KeyError"]
    /\ tpc' = [tpc EXCEPT ![t] = "idle"]
    /\ UNCHANGED <<cacheVars, tkey, toldest>>
    /\ ThreadStep

\* put, line 112
ThreadPutTest(t) ==
    /\ tpc[t] = "put"
    /\ tpc' = [tpc EXCEPT ![t] =
                 IF Len(cache) >= max_size THEN "put_oldest" ELSE "put_set"]
    /\ UNCHANGED <<cacheVars, tkey, toldest, terr>>
    /\ ThreadStep

\* put, line 114: next(iter(...)) raises StopIteration on an empty dict
ThreadPutOldest(t) ==
    /\ tpc[t] = "put_oldest"
    /\ IF Len(cache) > 0
       THEN /\ toldest' = [toldest EXCEPT ![t] = cache[1].key]
            /\ tpc' = [tpc EXCEPT ![t] = "put_del"]
            /\ UNCHANGED terr
       ELSE /\ terr' = [terr EXCEPT ![t] = "StopIteration"]
            /\ tpc' = [tpc EXCEPT ![t] = "idle"]
            /\ UNCHANGED toldest
    /\ UNCHANGED <<cacheVars, tkey>>
    /\ ThreadStep

\* put, line 115: del raises KeyError for a key that is gone
ThreadPutDel(t) ==
    /\ tpc[t] = "put_del"
    /\ IF toldest[t] \in CacheKeys(cache)
       THEN /\ cache' = DelKey(cache, toldest[t])
            /\ tpc' = [tpc EXCEPT ![t] = "put_set"]
            /\ UNCHANGED terr
       ELSE /\ terr' = [terr EXCEPT ![t] = "KeyError"]
            /\ tpc' = [tpc EXCEPT ![t] = "idle"]
            /\ UNCHANGED cache
    /\ toldest' = [toldest EXCEPT ![t] = None]
    /\ UNCHANGED <<max_size, hits, misses, heap, ret, recency, lastOp, tkey>>
    /\ ThreadStep

\* put, line 120
ThreadPutSet(t) ==
    LET key == tkey[t]
        c1  == SetItem(cache, key, SlotRef(key), SampleRateOf(key[1]))
    IN  /\ tpc[t] = "put_set"
        /\ cache' = c1
        /\ heap' = Collect([heap EXCEPT ![SlotRef(key)] = heap[CallerRef]], c1, ret)
        /\ tpc' = [tpc EXCEPT ![t] = "idle"]
        /\ UNCHANGED <<max_size, hits, misses, ret, recency, lastOp, tkey, toldest, terr>>
        /\ ThreadStep

NextThreads ==
    \E t \in Threads :
        \/ \E op \in {"get", "put"}, r \in ThreadRequests :
              ThreadCall(t, op, r[1], r[2], r[3])
        \/ ThreadGetTest(t)
        \/ ThreadGetMove(t)
        \/ ThreadGetRead(t)
        \/ ThreadPutTest(t)
        \/ ThreadPutOldest(t)
        \/ ThreadPutDel(t)
        \/ ThreadPutSet(t)

(***************************************************************************)
(* Match records and the list operations on them.  Times are tenths of a  *)
(* second; similarity and confidence of a scoring algorithm's match are    *)
(* hundredths.                                                             *)
(***************************************************************************)
CallsIdle ==
    /\ callArgs = None
    /\ callResult = None
    /\ callPc = "idle"

\* metadata of a match that carries none of the keys the ensemble reads
NoMeta == [algorithm |-> "", weight |-> 0]

\* dataclass SimilarityMatch
SimilarityMatch(target_start, target_end, source_start, source_end, similarity, confidence, metadata) ==
    [target_start |-> target_start, target_end |-> target_end,
     source_start |-> source_start, source_end |-> source_end,
     similarity |-> similarity, confidence |-> confidence,
     metadata |-> metadata]

\* BaseSimilarityAlgorithm.__init__ defaults, in hundredths
DefaultSimilarityThreshold == 70

DefaultConfidenceThreshold == 50

\* top_k = None
NoTopK == 0 - 1

\* an algorithm instance: its thresholds
Algorithm(similarity_threshold, confidence_threshold) ==
    [similarity_threshold |-> similarity_threshold,
     confidence_threshold |-> confidence_threshold]

\* BaseSimilarityAlgorithm._filter_matches
_filter_matches(self, matches, top_k) ==
    LET filtered ==
            SelectSeq(matches, LAMBDA m :
                /\ m.similarity >= self.similarity_threshold
                /\ m.confidence >= self.confidence_threshold)
        sorted_matches ==
            SortBy(filtered, LAMBDA x, y :
                \/ x.similarity > y.similarity
                \/ (x.similarity = y.similarity /\ x.confidence > y.confidence))
    IN  IF top_k # NoTopK /\ top_k > 0
        THEN Take(sorted_matches, top_k)
        ELSE sorted_matches

\* _compute_overlap dividing by the longer of the two durations
_compute_overlap_by_max(start1, end1, start2, end2) ==
    LET overlap_start == Max2(start1, start2)
        overlap_end   == Min2(end1, end2)
        overlap_duration == overlap_end - overlap_start
        max_duration  == Max2(end1 - start1, end2 - start2)
    IN  IF overlap_end <= overlap_start THEN <<0, 1>>
        ELSE IF max_duration > 0 THEN <<overlap_duration, max_duration>>
        ELSE <<0, 1>>

\* SegmentMatcher._compute_overlap: the ratio as an exact quotient
_compute_overlap(start1, end1, start2, end2) ==
    LET overlap_start == Max2(start1, start2)
        overlap_end   == Min2(end1, end2)
        overlap_duration == overlap_end - overlap_start
        min_duration  == Min2(end1 - start1, end2 - start2)
    IN  IF overlap_end <= overlap_start THEN <<0, 1>>
        ELSE IF min_duration > 0 THEN <<overlap_duration, min_duration>>
        ELSE <<0, 1>>

\* the overlap of two matches in the coordinates of mode
MatchOverlap(mode, m, existing) ==
    IF mode = "source"
    THEN _compute_overlap(m.source_start, m.source_end,
                          existing.source_start, existing.source_end)
    ELSE _compute_overlap(m.target_start, m.target_end,
                          existing.target_start, existing.target_end)

\* the test of remove_overlaps, line 74, against one kept match
Overlapping(overlap_threshold, mode, m, existing) ==
    FracGT(MatchOverlap(mode, m, existing), overlap_threshold)

\* the loop of remove_overlaps, lines 57-79, from position i of sorted_matches
RECURSIVE KeepLoop(_, _, _, _, _)
KeepLoop(overlap_threshold, mode, sorted_matches, i, filtered) ==
    IF i > Len(sorted_matches) THEN filtered
    ELSE LET m == sorted_matches[i]
             is_overlapping ==
                 \E k \in 1..Len(filtered) :
                     Overlapping(overlap_threshold, mode, m, filtered[k])
         IN  KeepLoop(overlap_threshold, mode, sorted_matches, i + 1,
                      IF is_overlapping THEN filtered ELSE Append(filtered, m))

\* SegmentMatcher.remove_overlaps
remove_overlaps(overlap_threshold, matches, mode) ==
    IF matches = <<>> THEN <<>>
    ELSE LET sorted_matches ==
                 SortBy(matches, LAMBDA x, y : x.similarity > y.similarity)
             filtered == KeepLoop(overlap_threshold, mode, sorted_matches, 1, <<>>)
         IN  IF mode = "source"
             THEN SortBy(filtered, LAMBDA x, y : x.source_start < y.source_start)
             ELSE SortBy(filtered, LAMBDA x, y : x.target_start < y.target_start)

(***************************************************************************)
(* A scoring algorithm's find_similar_segments: the sliding-window search  *)
(* yields a list of candidate matches, which _filter_matches then filters, *)
(* sorts and truncates.                                                    *)
(***************************************************************************)
\* duration of the target, tenths of a second
TargetDuration == 10

\* candidate matches of arbitrary score and confidence
FilterCandidates ==
    {SimilarityMatch(0, TargetDuration, ss, ss + TargetDuration, sim, conf, NoMeta) :
        ss \in {0}, sim \in {60, 70, 90}, conf \in {40, 100}}

TopKs == {NoTopK} \cup (0..MaxTopK)

InitFilter ==
    /\ callArgs \in [op : {"algorithm.find_similar_segments"},
                     self : {Algorithm(DefaultSimilarityThreshold,
                                       DefaultConfidenceThreshold),
                             Algorithm(0, 0)},
                     matches : SeqsUpTo(FilterCandidates, MaxMatches),
                     top_k : TopKs]
    /\ callResult = None
    /\ callPc = "ready"

\* the last statement of find_similar_segments: return self._filter_matches(matches, top_k)
AlgorithmFindSimilarSegments ==
    /\ callPc = "ready"
    /\ callArgs.op = "algorithm.find_similar_segments"
    /\ callResult' = _filter_matches(callArgs.self, callArgs.matches, callArgs.top_k)
    /\ callPc' = "done"
    /\ UNCHANGED callArgs
    /\ CallStep

(***************************************************************************)
(* SegmentMatcher.remove_overlaps on arbitrary lists of matches.           *)
(***************************************************************************)
\* SegmentMatcher.__init__ default overlap_threshold = 0.5
DefaultOverlapThreshold == <<1, 2>>

OverlapThresholds == {DefaultOverlapThreshold, <<3, 10>>}

SourceRanges == {<<0, 2>>, <<1, 3>>, <<2, 4>>, <<0, 4>>, <<3, 3>>}

OverlapCandidates ==
    {SimilarityMatch(0, TargetDuration, r[1], r[2], sim, 100, NoMeta) :
        r \in SourceRanges, sim \in {80, 90}}

InitOverlap ==
    /\ callArgs \in [op : {"remove_overlaps"},
                     overlap_threshold : OverlapThresholds,
                     matches : SeqsUpTo(OverlapCandidates, MaxMatches),
                     mode : {"source", "target"}]
    /\ callResult = None
    /\ callPc = "ready"

RemoveOverlaps ==
    /\ callPc = "ready"
    /\ callArgs.op = "remove_overlaps"
    /\ callResult' = remove_overlaps(callArgs.overlap_threshold, callArgs.matches,
                                     callArgs.mode)
    /\ callPc' = "done"
    /\ UNCHANGED callArgs
    /\ CallStep

(***************************************************************************)
(* AlgorithmManager: the registry of named algorithms, the search with one *)
(* algorithm and the ensemble of several.                                  *)
(***************************************************************************)
\* an algorithm instance: its class, its identity and its thresholds
Instance(class, id) ==
    [class |-> class, id |-> id,
     similarity_threshold |-> DefaultSimilarityThreshold,
     confidence_threshold |-> DefaultConfidenceThreshold]

\* _register_default_algorithms, lines 40-46
default_algorithms ==
    << [name |-> "mfcc",     algorithm |-> Instance("MFCCSimilarity", 1)],
       [name |-> "spectral", algorithm |-> Instance("SpectralSimilarity", 2)],
       [name |-> "energy",   algorithm |-> Instance("EnergySimilarity", 3)],
       [name |-> "rhythm",   algorithm |-> Instance("RhythmSimilarity", 4)],
       [name |-> "random",   algorithm |-> Instance("RandomMatcher", 5)] >>

\* names a caller registers under, and names it asks for
RegisterNames == {"mfcc", "custom"}

LookupNames == {"mfcc", "random", "custom", "nonexistent"}

AllNames == {default_algorithms[i].name : i \in 1..Len(default_algorithms)}
                \cup RegisterNames \cup LookupNames

\* instances a caller registers
NewAlgorithms == {Instance("EnergySimilarity", 6), Instance("MFCCSimilarity", 7)}

DictKeys(d) == {d[i].name : i \in 1..Len(d)}

\* dict.get(name): the value of the (first) entry under name, or None
DictGet(d, name) ==
    IF name \in DictKeys(d)
    THEN d[CHOOSE i \in 1..Len(d) :
              d[i].name = name /\ \A j \in 1..(i - 1) : d[j].name # name].algorithm
    ELSE None

\* a registry that keeps every registration: a new entry behind the old ones
DictSetKeepingOld(d, name, algorithm) ==
    Append(d, [name |-> name, algorithm |-> algorithm])

\* d[name] = algorithm: in place for a present name, appended for a new one
DictSet(d, name, algorithm) ==
    IF name \in DictKeys(d)
    THEN [i \in 1..Len(d) |->
             IF d[i].name = name THEN [name |-> name, algorithm |-> algorithm]
             ELSE d[i]]
    ELSE Append(d, [name |-> name, algorithm |-> algorithm])

\* a lookup that falls back to the first registered algorithm
get_algorithm_or_first(d, name) ==
    IF name \in DictKeys(d) THEN DictGet(d, name)
    ELSE IF d = <<>> THEN None ELSE d[1].algorithm

\* the dict after register(name, algorithm), line 63
register(d, name, algorithm) == DictSet(d, name, algorithm)

\* get_algorithm, line 76
get_algorithm(d, name) == DictGet(d, name)

\* list_algorithms, line 85
list_algorithms(d) == [i \in 1..Len(d) |-> d[i].name]

RECURSIVE RegisterAll(_, _, _)
RegisterAll(d, entries, i) ==
    IF i > Len(entries) THEN d
    ELSE RegisterAll(register(d, entries[i].name, entries[i].algorithm), entries, i + 1)

\* a returned value
Returned(value, ran) == [raised |-> "", message |-> "", value |-> value, ran |-> ran]

\* a raised exception
Raised(exception, message, ran) ==
    [raised |-> exception, message |-> message, value |-> None, ran |-> ran]

\* AlgorithmManager.__init__
InitManager ==
    /\ _algorithms = RegisterAll(<<>>, default_algorithms, 1)
    /\ registered = [n \in AllNames |->
                        DictGet(default_algorithms, n)]
    /\ callArgs = None
    /\ callResult = None
    /\ callPc = "idle"

ManagerIdle ==
    /\ _algorithms = <<>>
    /\ registered = [n \in AllNames |-> None]

\* time_tolerance of _group_similar_matches, tenths of a second
TimeTolerance == 5

\* what the sliding-window search of one algorithm scored on one pair of
\* buffers: windows of the target's duration, window_samples // 2 apart, each
\* either below the threshold (no match) or a match of some similarity
WindowMatch(duration, i, similarity) ==
    SimilarityMatch(0, duration, i * (duration \div 2),
                    i * (duration \div 2) + duration, similarity, 100, NoMeta)

\* target durations, tenths of a second
Durations == {8, 20}

WindowScores == {0, 80, 90}

\* the candidate list of one search: the windows scored at or above the
\* threshold, in window order
Candidates(duration, scores) ==
    LET all == [i \in 1..NumWindows |-> WindowMatch(duration, i - 1, scores[i])]
    IN  SelectSeq(all, LAMBDA m : m.similarity > 0)

\* algorithm.find_similar_segments on the candidates its search produced
AlgorithmSearch(algorithm, candidates, top_k) ==
    IF algorithm.class = "RandomMatcher"
    THEN Take(SortBy(candidates, LAMBDA x, y : x.similarity > y.similarity), top_k)
    ELSE _filter_matches(algorithm, candidates, top_k)

\* AlgorithmManager.find_similar_segments, lines 112-138
find_similar_segments(d, algorithm_name, candidates, top_k, with_remove_overlaps) ==
    LET algorithm == get_algorithm(d, algorithm_name)
        matches   == AlgorithmSearch(algorithm, candidates,
                        IF with_remove_overlaps THEN top_k * 2 ELSE top_k)
        kept      == IF with_remove_overlaps /\ matches # <<>>
                     THEN remove_overlaps(DefaultOverlapThreshold, matches, "source")
                     ELSE matches
    IN  IF algorithm = None
        THEN Raised("ValueError", "algorithm not found", <<>>)
        ELSE Returned(Take(kept, top_k), <<algorithm_name>>)

\* the loop of _group_similar_matches, lines 283-296, from position i
RECURSIVE GroupLoop(_, _, _, _)
GroupLoop(sorted_matches, i, groups, current_group) ==
    IF i > Len(sorted_matches) THEN Append(groups, current_group)
    ELSE LET m == sorted_matches[i]
             n == Len(current_group)
             sum_start == SumSeq([k \in 1..n |-> current_group[k].source_start])
             sum_end   == SumSeq([k \in 1..n |-> current_group[k].source_end])
             close     == /\ Abs(n * m.source_start - sum_start) < TimeTolerance * n
                          /\ Abs(n * m.source_end - sum_end) < TimeTolerance * n
         IN  IF close
             THEN GroupLoop(sorted_matches, i + 1, groups, Append(current_group, m))
             ELSE GroupLoop(sorted_matches, i + 1, Append(groups, current_group), <<m>>)

\* AlgorithmManager._group_similar_matches
_group_similar_matches(matches) ==
    IF matches = <<>> THEN <<>>
    ELSE LET sorted_matches ==
                 SortBy(matches, LAMBDA x, y : x.source_start < y.source_start)
         IN  GroupLoop(sorted_matches, 2, <<>>, <<sorted_matches[1]>>)

VotingMethods == {"weighted_average", "max", "min"}

\* the fused similarity of one group, lines 219-229, as an exact quotient
EnsembleSimilarity(group, voting_method) ==
    LET n == Len(group)
        total_weight == SumSeq([k \in 1..n |-> group[k].metadata.weight[1]])
        weighted_sum ==
            SumSeq([k \in 1..n |-> group[k].similarity * group[k].metadata.weight[1]])
        highest == CHOOSE k \in 1..n : \A j \in 1..n : group[k].similarity >= group[j].similarity
        lowest  == CHOOSE k \in 1..n : \A j \in 1..n : group[k].similarity <= group[j].similarity
    IN  IF voting_method = "weighted_average"
        THEN IF total_weight > 0 THEN <<weighted_sum, total_weight>> ELSE <<0, 1>>
        ELSE IF voting_method = "max" THEN <<group[highest].similarity, 1>>
        ELSE <<group[lowest].similarity, 1>>

\* the fused match of one group, lines 234-248
EnsembleMatch(group, voting_method, algorithm_names) ==
    LET n == Len(group)
        \* max(group, key=similarity): the first of the highest
        best == CHOOSE k \in 1..n :
                    /\ \A j \in 1..n : group[k].similarity >= group[j].similarity
                    /\ \A j \in 1..(k - 1) : group[j].similarity < group[k].similarity
        representative == group[best]
    IN  SimilarityMatch(representative.target_start, representative.target_end,
                        representative.source_start, representative.source_end,
                        EnsembleSimilarity(group, voting_method),
                        <<n, Len(algorithm_names)>>,
                        [ensemble |-> TRUE, num_votes |-> n,
                         algorithms |-> [k \in 1..n |-> group[k].metadata.algorithm]])

\* the search loop of the ensemble, lines 188-205, from position i: the
\* matches found so far per algorithm, or the error a search raised
RECURSIVE EnsembleSearch(_, _, _, _, _, _, _)
EnsembleSearch(d, algorithm_names, scan, weights, top_k, i, found) ==
    IF i > Len(algorithm_names) THEN Returned(found, SubSeq(algorithm_names, 1, i - 1))
    ELSE LET r == find_similar_segments(d, algorithm_names[i], scan[i], top_k * 3, FALSE)
             tagged == [k \in 1..Len(r.value) |->
                           [r.value[k] EXCEPT !.metadata =
                               [algorithm |-> algorithm_names[i],
                                weight |-> <<weights[i], SumSeq(weights)>>]]]
         IN  IF r.raised # ""
             THEN Raised(r.raised, r.message, SubSeq(algorithm_names, 1, i - 1))
             ELSE EnsembleSearch(d, algorithm_names, scan, weights, top_k, i + 1,
                                 Append(found, tagged))

\* AlgorithmManager.ensemble_find_segments, lines 167-257.  scan[i] is what
\* the search of algorithm_names[i] scored.
ensemble_find_segments(d, algorithm_names, scan, given_weights, top_k, voting_method) ==
    LET weights == IF given_weights = None
                   THEN [i \in 1..Len(algorithm_names) |-> 1]
                   ELSE given_weights
        searched == EnsembleSearch(d, algorithm_names, scan, weights, top_k, 1, <<>>)
        grouped_matches == _group_similar_matches(Concat(searched.value))
        ensemble_matches ==
            [g \in 1..Len(grouped_matches) |->
                EnsembleMatch(grouped_matches[g], voting_method, algorithm_names)]
        sorted_matches ==
            SortBy(ensemble_matches, LAMBDA x, y : FracGT(x.similarity, y.similarity))
    IN  IF algorithm_names = <<>>
        THEN Raised("ValueError", "no algorithm given", <<>>)
        ELSE IF Len(weights) # Len(algorithm_names)
        THEN Raised("ValueError", "weight count mismatch", <<>>)
        ELSE IF searched.raised # "" THEN searched
        ELSE IF grouped_matches # <<>> /\ voting_method \notin VotingMethods
             THEN Raised("ValueError", "unsupported voting method", searched.ran)
        ELSE Returned(Take(sorted_matches, top_k), searched.ran)

(***************************************************************************)
(* Calls on one AlgorithmManager.                                          *)
(***************************************************************************)
ScanOf(duration) ==
    {Candidates(duration, scores) : scores \in [1..NumWindows -> WindowScores]}

Scans == UNION {ScanOf(duration) : duration \in Durations}

\* A query leaves the manager as it found it, so a query after a query starts
\* from a manager already queried: queries are made on a manager as
\* constructed and after each register.
Unqueried == IF callPc = "idle" THEN TRUE ELSE callArgs.op = "register"

Register(name, algorithm) ==
    /\ _algorithms' = register(_algorithms, name, algorithm)
    /\ registered' = [registered EXCEPT ![name] = algorithm]
    /\ callArgs' = [op |-> "register", name |-> name, algorithm |-> algorithm]
    /\ callResult' = Returned(None, <<>>)
    /\ callPc' = "done"
    /\ ManagerStep

GetAlgorithm(name) ==
    /\ Unqueried
    /\ callArgs' = [op |-> "get_algorithm", name |-> name]
    /\ callResult' = Returned(get_algorithm(_algorithms, name), <<>>)
    /\ callPc' = "done"
    /\ UNCHANGED managerVars
    /\ ManagerStep

ListAlgorithms ==
    /\ Unqueried
    /\ callArgs' = [op |-> "list_algorithms"]
    /\ callResult' = Returned(list_algorithms(_algorithms), <<>>)
    /\ callPc' = "done"
    /\ UNCHANGED managerVars
    /\ ManagerStep

FindSimilarSegments(algorithm_name, candidates, top_k, with_remove_overlaps) ==
    /\ Unqueried
    /\ callArgs' = [op |-> "find_similar_segments", name |-> algorithm_name,
                    candidates |-> candidates, top_k |-> top_k,
                    remove_overlaps |-> with_remove_overlaps]
    /\ callResult' = find_similar_segments(_algorithms, algorithm_name, candidates,
                                           top_k, with_remove_overlaps)
    /\ callPc' = "done"
    /\ UNCHANGED managerVars
    /\ ManagerStep

NextManager ==
    \/ \E name \in RegisterNames, algorithm \in NewAlgorithms : Register(name, algorithm)
    \/ \E name \in LookupNames : GetAlgorithm(name)
    \/ ListAlgorithms
    \/ \E name \in LookupNames, candidates \in Scans, top_k \in 0..MaxTopK,
          ro \in BOOLEAN :
          FindSimilarSegments(name, candidates, top_k, ro)

(***************************************************************************)
(* The ensemble on every choice of names, weights, voting method and       *)
(* search outcome, over a manager as constructed.                          *)
(***************************************************************************)
EnsembleNames == {"mfcc", "energy", "nonexistent"}

WeightLists == {None} \cup SeqsUpTo({1, 2}, MaxNames)

InitEnsemble ==
    /\ _algorithms = RegisterAll(<<>>, default_algorithms, 1)
    /\ registered = [n \in AllNames |-> DictGet(default_algorithms, n)]
    /\ \E names \in SeqsUpTo(EnsembleNames, MaxNames), duration \in Durations :
          callArgs \in [op : {"ensemble_find_segments"},
                        algorithm_names : {names},
                        scan : [1..Len(names) -> ScanOf(duration)],
                        weights : WeightLists,
                        top_k : 0..MaxTopK,
                        voting_method : VotingMethods \cup {"median"}]
    /\ callResult = None
    /\ callPc = "ready"

EnsembleFindSegments ==
    /\ callPc = "ready"
    /\ callArgs.op = "ensemble_find_segments"
    /\ callResult' = ensemble_find_segments(_algorithms, callArgs.algorithm_names,
                         callArgs.scan, callArgs.weights, callArgs.top_k,
                         callArgs.voting_method)
    /\ callPc' = "done"
    /\ UNCHANGED <<callArgs, managerVars>>
    /\ ManagerStep

\* a cache not in use
CacheIdle ==
    /\ max_size = 0
    /\ cache = <<>>
    /\ hits = 0
    /\ misses = 0
    /\ heap = [x \in Refs |-> 0]
    /\ ret = None
    /\ recency = <<>>
    /\ lastOp = NoOp

\* one caller at a time: put, get, clear and the caller's writes
Init == InitCache /\ ThreadsIdle /\ CallsIdle /\ ManagerIdle /\ EngineIdle /\ RandomIdle /\ BatchIdle

Next == NextCache

Spec == Init /\ [][Next]_vars

\* several threads on one cache
InitThreads == InitCache /\ ThreadsIdle /\ CallsIdle /\ ManagerIdle /\ EngineIdle /\ RandomIdle /\ BatchIdle

SpecThreads == InitThreads /\ [][NextThreads]_vars

\* a scoring algorithm's find_similar_segments on every candidate list
InitFilterCalls == InitFilter /\ CacheIdle /\ ThreadsIdle /\ ManagerIdle /\ EngineIdle /\ RandomIdle /\ BatchIdle

NextFilter == AlgorithmFindSimilarSegments

SpecFilter == InitFilterCalls /\ [][NextFilter]_vars

\* remove_overlaps on every list of matches
InitOverlapCalls == InitOverlap /\ CacheIdle /\ ThreadsIdle /\ ManagerIdle /\ EngineIdle /\ RandomIdle /\ BatchIdle

NextOverlap == RemoveOverlaps

SpecOverlap == InitOverlapCalls /\ [][NextOverlap]_vars

\* register, get_algorithm, list_algorithms and find_similar_segments on one manager
InitManagerCalls == InitManager /\ CacheIdle /\ ThreadsIdle /\ EngineIdle /\ RandomIdle /\ BatchIdle

SpecManager == InitManagerCalls /\ [][NextManager]_vars

\* ensemble_find_segments on every input
InitEnsembleCalls == InitEnsemble /\ CacheIdle /\ ThreadsIdle /\ EngineIdle /\ RandomIdle /\ BatchIdle

NextEnsemble == EnsembleFindSegments

SpecEnsemble == InitEnsembleCalls /\ [][NextEnsemble]_vars

(***************************************************************************)
(* Claims about the segment cache.                                         *)
(***************************************************************************)

\* C1: the number of cached entries is never greater than max_size, and no
\* put fails because of the capacity check.
C1_WithinCapacityAndPutNeverFails ==
    /\ Len(cache) <= max_size
    /\ ~(lastOp.op = "put" /\ lastOp.raised)

\* C2: a put that inserts a new key into a cache at capacity evicts exactly
\* one entry, the least recently touched one (touched by the put that stored
\* it and by every get that hit it), and leaves max_size entries.
C2_EvictsLeastRecentlyTouched ==
    [][\A f \in SourceFiles, s \in StartTimes, e \in EndTimes :
          (/\ Put(f, s, e, SampleRateOf(f))
           /\ ~lastOp'.raised
           /\ _generate_key(f, s, e) \notin CacheKeys(cache)
           /\ Len(cache) = max_size)
          => /\ CacheKeys(cache) \ CacheKeys(cache') = {Head(recency)}
             /\ Len(cache') = max_size]_vars

\* C4: writing into the array a get returned, or into the caller's own
\* array after it was put, never changes what a later get of any key reads.
C4_GetReturnsClone ==
    [][(\E r \in Refs, v \in Samples : WriteBuffer(r, v))
          => \A k \in AllKeys :
                GetResult(cache', heap', k) = GetResult(cache, heap, k)]_vars

\* C5: a put immediately followed by a get of the same (source, start, end)
\* is a hit that reads the stored contents and rate; a get of a key that is
\* not stored (never put, evicted or cleared) returns None.
C5_PutGetRoundTrip ==
    [][\A f \in SourceFiles, s \in StartTimes, e \in EndTimes :
          /\ Put(f, s, e, SampleRateOf(f))
                => GetResult(cache', heap', _generate_key(f, s, e))
                      = <<heap[CallerRef], SampleRateOf(f)>>
          /\ (Get(f, s, e) /\ _generate_key(f, s, e) \notin Range(recency))
                => ret' = None]_vars

\* C3: with several threads in get and put, no interleaving leaves more than
\* max_size entries in the cache or makes a call raise because an entry
\* disappeared between the membership test and the access.
C3_ConcurrentCallsAreAtomic ==
    /\ Len(cache) <= max_size
    /\ \A t \in Threads : terr[t] # "KeyError"

(***************************************************************************)
(* Claims about the match-list operations.                                 *)
(***************************************************************************)

\* list s is in descending order of (similarity, confidence)
SortedBySimilarityConfidence(s) ==
    \A i \in 1..(Len(s) - 1) :
        \/ s[i].similarity > s[i + 1].similarity
        \/ /\ s[i].similarity = s[i + 1].similarity
           /\ s[i].confidence >= s[i + 1].confidence

\* C6: for every non-negative top_k and every candidate list, a scoring
\* algorithm's find_similar_segments returns at most top_k matches, sorted by
\* (similarity, confidence) descending.
C6_AtMostTopKSortedDescending ==
    (callPc = "done" /\ callArgs.op = "algorithm.find_similar_segments"
        /\ callArgs.top_k >= 0)
    => /\ Len(callResult) <= callArgs.top_k
       /\ SortedBySimilarityConfidence(callResult)

\* number of occurrences of x in list s
Count(s, x) == Cardinality({i \in 1..Len(s) : s[i] = x})

\* list t holds no element more often than list s does
SubList(t, s) == \A i \in 1..Len(t) : Count(t, t[i]) <= Count(s, t[i])

\* the overlap ratio of two matches in source time: overlap duration over
\* the shorter duration, 0 when they do not overlap
SourceOverlapRatio(a, b) ==
    LET overlap == Min2(a.source_end, b.source_end)
                     - Max2(a.source_start, b.source_start)
        shorter == Min2(a.source_end - a.source_start,
                        b.source_end - b.source_start)
    IN  IF overlap > 0 /\ shorter > 0 THEN <<overlap, shorter>> ELSE <<0, 1>>

RemoveOverlapsSourceDone ==
    callPc = "done" /\ callArgs.op = "remove_overlaps" /\ callArgs.mode = "source"

SortedBySourceStart(s) ==
    \A i \in 1..(Len(s) - 1) : s[i].source_start <= s[i + 1].source_start

\* C8 as stated: in source mode the kept matches are a subset of the input,
\* every two of them overlap by a ratio strictly less than overlap_threshold,
\* and they are ordered by source_start ascending.
C8_KeptOverlapBelowThreshold ==
    RemoveOverlapsSourceDone
    => /\ SubList(callResult, callArgs.matches)
       /\ \A i, j \in 1..Len(callResult) :
             i < j => FracGT(callArgs.overlap_threshold,
                             SourceOverlapRatio(callResult[i], callResult[j]))
       /\ SortedBySourceStart(callResult)

\* C8 amended: ... every two of them overlap by a ratio of at most
\* overlap_threshold (a pair at exactly the threshold is kept) ...
C8_KeptOverlapAtMostThreshold ==
    RemoveOverlapsSourceDone
    => /\ SubList(callResult, callArgs.matches)
       /\ \A i, j \in 1..Len(callResult) :
             i < j => FracGE(callArgs.overlap_threshold,
                             SourceOverlapRatio(callResult[i], callResult[j]))
       /\ SortedBySourceStart(callResult)

\* remove_overlaps dropped a match and kept two that overlap at the threshold
C8_Witness ==
    /\ RemoveOverlapsSourceDone
    /\ Len(callResult) < Len(callArgs.matches)
    /\ \E i, j \in 1..Len(callResult) :
          /\ i < j
          /\ SourceOverlapRatio(callResult[i], callResult[j])[1] > 0
          /\ ~FracGT(callArgs.overlap_threshold,
                     SourceOverlapRatio(callResult[i], callResult[j]))

(***************************************************************************)
(* AlgorithmManager.benchmark_algorithms on every list of names and every  *)
(* outcome of each search.  elapsed_time, a difference of clock readings,  *)
(* is left out of the entries.                                             *)
(***************************************************************************)
\* top_k of the benchmark's searches
BenchmarkTopK == 10

\* what one algorithm's search does on the benchmark's buffers: it raises
\* (_validate_audio on a buffer it rejects) or it scores the windows
SearchOutcomes ==
    {[raised |-> "ValueError", message |-> "invalid audio", candidates |-> <<>>]}
        \cup {[raised |-> "", message |-> "", candidates |-> Candidates(20, scores)] :
                 scores \in [1..NumWindows -> {0, 90}]}

\* self.find_similar_segments as the benchmark calls it, on one outcome
BenchmarkSearch(d, name, outcome) ==
    IF get_algorithm(d, name) # None /\ outcome.raised # ""
    THEN Raised(outcome.raised, outcome.message, <<name>>)
    ELSE find_similar_segments(d, name, outcome.candidates, BenchmarkTopK, FALSE)

\* the entry of one algorithm, lines 339-371
BenchmarkEntry(d, name, outcome) ==
    LET r == BenchmarkSearch(d, name, outcome)
        matches == r.value
        n == Len(matches)
        similarities == [k \in 1..n |-> matches[k].similarity]
        highest == CHOOSE x \in Range(similarities) :
                       \A y \in Range(similarities) : x >= y
        lowest  == CHOOSE x \in Range(similarities) :
                       \A y \in Range(similarities) : x <= y
    IN  IF r.raised # ""
        THEN [success |-> FALSE, error |-> r.message]
        ELSE [success |-> TRUE, num_matches |-> n,
              avg_similarity |-> IF n > 0 THEN <<SumSeq(similarities), n>> ELSE <<0, 1>>,
              max_similarity |-> IF n > 0 THEN highest ELSE 0,
              min_similarity |-> IF n > 0 THEN lowest ELSE 0]

\* an entry that lets the exception of a failed search through
BenchmarkEntryUncaught(d, name, outcome) ==
    LET r == BenchmarkSearch(d, name, outcome)
    IN  IF r.raised # "" THEN r ELSE BenchmarkEntry(d, name, outcome)

\* results[name] = entry
ResultsSet(results, name, entry) ==
    IF \E i \in 1..Len(results) : results[i].name = name
    THEN [i \in 1..Len(results) |->
             IF results[i].name = name THEN [name |-> name, entry |-> entry]
             ELSE results[i]]
    ELSE Append(results, [name |-> name, entry |-> entry])

\* the entry the loop stores for one name: what the try block or the except
\* block assigns
BenchmarkOne(d, name, outcome) == BenchmarkEntry(d, name, outcome)

\* the loop of benchmark_algorithms, lines 336-371, from position i
RECURSIVE BenchmarkLoop(_, _, _, _, _)
BenchmarkLoop(d, algorithm_names, outcomes, i, results) ==
    IF i > Len(algorithm_names) THEN Returned(results, algorithm_names)
    ELSE LET entry == BenchmarkOne(d, algorithm_names[i], outcomes[i])
         IN  IF "raised" \in DOMAIN entry
             THEN Raised(entry.raised, entry.message, SubSeq(algorithm_names, 1, i))
             ELSE BenchmarkLoop(d, algorithm_names, outcomes, i + 1,
                                ResultsSet(results, algorithm_names[i], entry))

\* the names benchmark_algorithms works on, lines 323-324
BenchmarkNames(d, algorithm_names) ==
    IF algorithm_names = None THEN list_algorithms(d) ELSE algorithm_names

\* AlgorithmManager.benchmark_algorithms, lines 323-375
benchmark_algorithms(d, algorithm_names, outcomes) ==
    BenchmarkLoop(d, BenchmarkNames(d, algorithm_names), outcomes, 1, <<>>)

BenchmarkNameLists == {None} \cup SeqsUpTo(EnsembleNames, MaxNames)

InitBenchmark ==
    /\ _algorithms = RegisterAll(<<>>, default_algorithms, 1)
    /\ registered = [n \in AllNames |-> DictGet(default_algorithms, n)]
    /\ \E names \in BenchmarkNameLists :
          callArgs \in [op : {"benchmark_algorithms"},
                        algorithm_names : {names},
                        outcomes : [1..Len(BenchmarkNames(_algorithms, names))
                                       -> SearchOutcomes]]
    /\ callResult = None
    /\ callPc = "ready"

BenchmarkAlgorithms ==
    /\ callPc = "ready"
    /\ callArgs.op = "benchmark_algorithms"
    /\ callResult' = benchmark_algorithms(_algorithms, callArgs.algorithm_names,
                                          callArgs.outcomes)
    /\ callPc' = "done"
    /\ UNCHANGED <<callArgs, managerVars>>
    /\ ManagerStep

InitBenchmarkCalls == InitBenchmark /\ CacheIdle /\ ThreadsIdle /\ EngineIdle /\ RandomIdle /\ BatchIdle

NextBenchmark == BenchmarkAlgorithms

SpecBenchmark == InitBenchmarkCalls /\ [][NextBenchmark]_vars

(***************************************************************************)
(* CollageEngine.synthesize, one stage per step.  Samples are integers in  *)
(* thousandths of full scale.  What the search finds in a file, what the   *)
(* extractor cuts out of it and what each transform returns are inputs.    *)
(* processing_time, a difference of clock readings, is left out of the     *)
(* metadata.                                                               *)
(***************************************************************************)
\* full scale, 1.0, and the target of the final normalization, 0.99
FullScale == 1000

NormalizedPeak == 990

\* buffers a file, the extractor or a transform can yield
Buffers == {<<500, -1000>>, <<-1500, 500>>, <<2000, -1500>>}

\* np.abs(buffer).max()
Peak(buffer) ==
    CHOOSE p \in {Abs(buffer[k]) : k \in 1..Len(buffer)} :
        \A k \in 1..Len(buffer) : p >= Abs(buffer[k])

\* sample * num / den, to the resolution of the model
Scale(sample, num, den) ==
    IF sample >= 0 THEN (sample * num) \div den ELSE 0 - ((0 - sample) * num) \div den

\* lists of matches the search of one source file can return
FoundLists ==
    { <<>>,
      <<WindowMatch(20, 0, 80)>>,
      <<WindowMatch(20, 1, 90)>>,
      <<WindowMatch(20, 0, 80), WindowMatch(20, 1, 90)>> }

\* the share of the source files done, not scaled to the search's 30%
SearchProgressUnscaled(k, n) == <<k + 1, n>>

\* the progress reported after source file number k + 1 of n, line 136:
\* (k + 1) / n * 0.3
SearchProgress(k, n) == <<(k + 1) * 3, n * 10>>

\* the matches of one file, tagged with the file, lines 123-131
Tagged(matches, source_file) ==
    [k \in 1..Len(matches) |->
        [matches[k] EXCEPT !.metadata = [source_file |-> source_file]]]

\* all_matches after the loop over the source files, lines 113-133
SearchAll(source_files, found) ==
    Concat([k \in 1..Len(source_files) |-> Tagged(found[k], source_files[k])])

\* the fractions reported during the search, lines 110-111 and 135-137
SearchReports(n) == <<<<0, 1>>>> \o [k \in 1..n |-> SearchProgress(k - 1, n)]

\* a test that never finds the list empty
NeverNoMatch(matches) == FALSE

\* `not all_matches`, line 139
NoMatchFound(matches) == matches = <<>>

\* a selection that skips the sort
UnsortedMatches(matches) == matches

\* all_matches.sort(key=lambda m: m.similarity, reverse=True), line 143
SortedMatches(matches) == SortBy(matches, LAMBDA x, y : x.similarity > y.similarity)

\* the flag that enables a transform stage
StageFlagSwapped(args, stage) ==
    CASE stage = "TEMPO"   -> args.adjust_pitch
      [] stage = "PITCH"   -> args.adjust_tempo
      [] stage = "PROSODY" -> args.match_prosody
      [] stage = "ENHANCE" -> args.enhance_quality

StageFlag(args, stage) ==
    CASE stage = "TEMPO"   -> args.adjust_tempo
      [] stage = "PITCH"   -> args.adjust_pitch
      [] stage = "PROSODY" -> args.match_prosody
      [] stage = "ENHANCE" -> args.enhance_quality

\* a normalization that only acts above twice full scale
FinalNormalizeLate(buffer) ==
    LET max_val == Peak(buffer)
    IN  IF max_val > 2 * FullScale
        THEN [k \in 1..Len(buffer) |-> Scale(buffer[k], NormalizedPeak, max_val)]
        ELSE buffer

\* the final normalization, lines 197-199
FinalNormalize(buffer) ==
    LET max_val == Peak(buffer)
    IN  IF max_val > FullScale
        THEN [k \in 1..Len(buffer) |-> Scale(buffer[k], NormalizedPeak, max_val)]
        ELSE buffer

EngineArguments ==
    UNION { [op : {"synthesize"},
             source_files : {files},
             found : [1..Len(files) -> FoundLists],
             adjust_pitch : BOOLEAN, adjust_tempo : BOOLEAN,
             match_prosody : BOOLEAN, enhance_quality : BOOLEAN]
            : files \in SeqsUpTo(SourceFiles, MaxSources) }

InitEngine ==
    /\ callArgs \in EngineArguments
    /\ callResult = None
    /\ callPc = "ready"
    /\ EngineIdle

\* SEARCH, lines 109-140
Search ==
    /\ callPc = "ready"
    /\ callArgs.op = "synthesize"
    /\ stages' = Append(stages, "SEARCH")
    /\ progress' = progress \o SearchReports(Len(callArgs.source_files))
    /\ all_matches' = SearchAll(callArgs.source_files, callArgs.found)
    /\ IF NoMatchFound(all_matches')
       THEN /\ callResult' = Raised("ValueError", "no similar segment found", <<>>)
            /\ callPc' = "failed"
       ELSE /\ callResult' = callResult
            /\ callPc' = "select"
    /\ UNCHANGED <<callArgs, best_match, segment, adjusted>>
    /\ EngineStep

\* SELECT_BEST, lines 142-144
SelectBest ==
    /\ callPc = "select"
    /\ all_matches' = SortedMatches(all_matches)
    /\ IF all_matches' = <<>>
       THEN /\ callResult' = Raised("IndexError", "list index out of range", <<>>)
            /\ callPc' = "failed"
            /\ best_match' = best_match
       ELSE /\ callResult' = callResult
            /\ callPc' = "extract"
            /\ best_match' = all_matches'[1]
    /\ stages' = Append(stages, "SELECT_BEST")
    /\ UNCHANGED <<callArgs, progress, segment, adjusted>>
    /\ EngineStep

\* EXTRACT, lines 147-158
Extract ==
    /\ callPc = "extract"
    /\ progress' = Append(progress, <<3, 10>>)
    /\ \E data \in Buffers :
          segment' = [data |-> data,
                      sample_rate |-> SampleRateOf(best_match.metadata.source_file),
                      source_file |-> best_match.metadata.source_file,
                      source_start |-> best_match.source_start,
                      source_end |-> best_match.source_end]
    /\ stages' = Append(stages, "EXTRACT")
    /\ callPc' = "adjust"
    /\ UNCHANGED <<callArgs, callResult, all_matches, best_match, adjusted>>
    /\ EngineStep

\* adjusted = segment.copy(), lines 161-164
BeginAdjust ==
    /\ callPc = "adjust"
    /\ progress' = Append(progress, <<5, 10>>)
    /\ adjusted' = segment.data
    /\ callPc' = "tempo"
    /\ UNCHANGED <<callArgs, callResult, stages, all_matches, best_match, segment>>
    /\ EngineStep

\* one transform stage: it runs when its flag is set, and reports the
\* fraction it has to report before it runs
Transform(pc, stage, reports, next) ==
    /\ callPc = pc
    /\ IF StageFlag(callArgs, stage)
       THEN /\ progress' = progress \o reports
            /\ adjusted' \in Buffers
            /\ stages' = Append(stages, stage)
       ELSE UNCHANGED <<progress, adjusted, stages>>
    /\ callPc' = next
    /\ UNCHANGED <<callArgs, callResult, all_matches, best_match, segment>>
    /\ EngineStep

\* TEMPO, lines 166-170
Tempo == Transform("tempo", "TEMPO", <<>>, "pitch")

\* PITCH, lines 172-176
Pitch == Transform("pitch", "PITCH", <<>>, "prosody")

\* PROSODY, lines 179-186
Prosody == Transform("prosody", "PROSODY", <<<<7, 10>>>>, "enhance")

\* ENHANCE, lines 189-194
Enhance == Transform("enhance", "ENHANCE", <<<<9, 10>>>>, "normalize")

\* NORMALIZE, lines 197-199
Normalize ==
    /\ callPc = "normalize"
    /\ adjusted' = FinalNormalize(adjusted)
    /\ stages' = Append(stages, "NORMALIZE")
    /\ callPc' = "finish"
    /\ UNCHANGED <<callArgs, callResult, progress, all_matches, best_match, segment>>
    /\ EngineStep

\* the metadata of a finished call, lines 202-214
Metadata ==
    [source_file |-> segment.source_file,
     similarity |-> best_match.similarity,
     source_start |-> best_match.source_start,
     source_end |-> best_match.source_end,
     num_source_files |-> Len(callArgs.source_files),
     num_matches |-> Len(all_matches),
     adjusted_pitch |-> callArgs.adjust_pitch,
     adjusted_tempo |-> callArgs.adjust_tempo,
     matched_prosody |-> callArgs.match_prosody,
     enhanced_quality |-> callArgs.enhance_quality]

\* DONE, lines 202-224
Finish ==
    /\ callPc = "finish"
    /\ progress' = Append(progress, <<1, 1>>)
    /\ callResult' = Returned([audio |-> adjusted, sample_rate |-> segment.sample_rate,
                               metadata |-> Metadata], <<>>)
    /\ stages' = Append(stages, "DONE")
    /\ callPc' = "done"
    /\ UNCHANGED <<callArgs, all_matches, best_match, segment, adjusted>>
    /\ EngineStep

NextEngine ==
    \/ Search
    \/ SelectBest
    \/ Extract
    \/ BeginAdjust
    \/ Tempo
    \/ Pitch
    \/ Prosody
    \/ Enhance
    \/ Normalize
    \/ Finish

InitEngineCalls == InitEngine /\ CacheIdle /\ ThreadsIdle /\ ManagerIdle /\ RandomIdle /\ BatchIdle

SpecEngine == InitEngineCalls /\ [][NextEngine]_vars

(***************************************************************************)
(* AudioBlender.crossfade and blend_segments.  A sample of an input        *)
(* segment is an integer; a sample of a crossfade region is the term of    *)
(* the two samples, the curve and the position it was blended from (the    *)
(* floating-point value is not computed).                                  *)
(***************************************************************************)
BlendAlgorithms == {"linear", "logarithmic", "equal_power", "spectral"}

\* sample k of n of a crossfade region
BlendedSample(curve, x1, x2, k, n) ==
    [curve |-> curve, fade_out |-> x1, fade_in |-> x2, k |-> k, n |-> n]

\* audio1[-crossfade_samples:] against audio2[:crossfade_samples] under a curve
Overlapped(curve, audio1, audio2, crossfade_samples) ==
    [k \in 1..crossfade_samples |->
        BlendedSample(curve, audio1[Len(audio1) - crossfade_samples + k], audio2[k],
                      k, crossfade_samples)]

\* audio1[:-crossfade_samples]
BeforeFade(audio1, crossfade_samples) ==
    SubSeq(audio1, 1, Len(audio1) - crossfade_samples)

\* the second buffer kept whole behind the crossfade region
AfterFadeWhole(audio2, crossfade_samples) == audio2

\* audio2[crossfade_samples:]
AfterFade(audio2, crossfade_samples) ==
    SubSeq(audio2, crossfade_samples + 1, Len(audio2))

\* np.concatenate([audio1[:-n], overlapped, audio2[n:]])
Assemble(audio1, overlapped, audio2, crossfade_samples) ==
    BeforeFade(audio1, crossfade_samples) \o overlapped
        \o AfterFade(audio2, crossfade_samples)

\* lines 111-129
_linear_crossfade(audio1, audio2, crossfade_samples) ==
    Assemble(audio1, Overlapped("linear", audio1, audio2, crossfade_samples),
             audio2, crossfade_samples)

\* lines 131-153
_logarithmic_crossfade(audio1, audio2, crossfade_samples) ==
    Assemble(audio1, Overlapped("logarithmic", audio1, audio2, crossfade_samples),
             audio2, crossfade_samples)

\* lines 155-173
_equal_power_crossfade(audio1, audio2, crossfade_samples) ==
    Assemble(audio1, Overlapped("equal_power", audio1, audio2, crossfade_samples),
             audio2, crossfade_samples)

\* lines 175-212: istft(..., length=crossfade_samples) yields crossfade_samples
\* samples
_spectral_crossfade(audio1, audio2, crossfade_samples) ==
    Assemble(audio1, Overlapped("spectral", audio1, audio2, crossfade_samples),
             audio2, crossfade_samples)

\* min(crossfade_samples, len(audio1), len(audio2)), line 89
ClampedFade(configured, audio1, audio2) ==
    Min2(configured, Min2(Len(audio1), Len(audio2)))

\* AudioBlender.crossfade, lines 86-107; configured is
\* int(self.crossfade_duration * sample_rate)
crossfade(blend_algorithm, configured, audio1, audio2) ==
    LET crossfade_samples == ClampedFade(configured, audio1, audio2)
    IN  IF crossfade_samples = 0 THEN Returned(audio1 \o audio2, <<>>)
        ELSE IF blend_algorithm = "linear"
        THEN Returned(_linear_crossfade(audio1, audio2, crossfade_samples), <<>>)
        ELSE IF blend_algorithm = "logarithmic"
        THEN Returned(_logarithmic_crossfade(audio1, audio2, crossfade_samples), <<>>)
        ELSE IF blend_algorithm = "equal_power"
        THEN Returned(_equal_power_crossfade(audio1, audio2, crossfade_samples), <<>>)
        ELSE IF blend_algorithm = "spectral"
        THEN Returned(_spectral_crossfade(audio1, audio2, crossfade_samples), <<>>)
        ELSE Raised("ValueError", "unsupported blend algorithm", <<>>)

\* the loop of blend_segments, lines 64-65, from position i
RECURSIVE BlendLoop(_, _, _, _, _)
BlendLoop(blend_algorithm, configured, segments, i, result) ==
    IF i > Len(segments) THEN Returned(result, <<>>)
    ELSE LET r == crossfade(blend_algorithm, configured, result, segments[i])
         IN  IF r.raised # "" THEN r
             ELSE BlendLoop(blend_algorithm, configured, segments, i + 1, r.value)

\* AudioBlender.blend_segments, lines 54-67
blend_segments(blend_algorithm, configured, segments) ==
    IF segments = <<>> THEN Raised("ValueError", "no segments", <<>>)
    ELSE IF Len(segments) = 1 THEN Returned(segments[1], <<>>)
    ELSE BlendLoop(blend_algorithm, configured, segments, 2, segments[1])

\* segment number j of a call, of the given length: its samples are told
\* apart by segment and position
Segment(j, length) == [k \in 1..length |-> 10 * j + k]

SegmentLists ==
    {[j \in 1..Len(lengths) |-> Segment(j, lengths[j])] :
        lengths \in SeqsUpTo(0..MaxSegmentLength, MaxSegments)}

InitBlend ==
    /\ callArgs \in [op : {"crossfade", "blend_segments"},
                     blend_algorithm : BlendAlgorithms \cup {"cubic"},
                     configured : 0..MaxFade,
                     segments : SegmentLists]
    /\ callArgs.op = "crossfade" => Len(callArgs.segments) = 2
    /\ callResult = None
    /\ callPc = "ready"

Crossfade ==
    /\ callPc = "ready"
    /\ callArgs.op = "crossfade"
    /\ callResult' = crossfade(callArgs.blend_algorithm, callArgs.configured,
                               callArgs.segments[1], callArgs.segments[2])
    /\ callPc' = "done"
    /\ UNCHANGED callArgs
    /\ CallStep

BlendSegments ==
    /\ callPc = "ready"
    /\ callArgs.op = "blend_segments"
    /\ callResult' = blend_segments(callArgs.blend_algorithm, callArgs.configured,
                                    callArgs.segments)
    /\ callPc' = "done"
    /\ UNCHANGED callArgs
    /\ CallStep

InitBlendCalls == InitBlend /\ CacheIdle /\ ThreadsIdle /\ ManagerIdle /\ EngineIdle /\ RandomIdle /\ BatchIdle

NextBlend == Crossfade \/ BlendSegments

SpecBlend == InitBlendCalls /\ [][NextBlend]_vars

(***************************************************************************)
(* MFCCSimilarity._dtw_distance.  A feature matrix is the list of its      *)
(* frames (columns), a frame the tuple of its coefficients, coefficients   *)
(* integers.  The Euclidean distance is rounded down to an integer; the    *)
(* distance returned is kept as the quotient [dtw_matrix[n, m], n + m].    *)
(***************************************************************************)
\* np.inf
Infinity == 0 - 1

\* a + b and min(a, b) with np.inf
AddInf(a, b) == IF a = Infinity \/ b = Infinity THEN Infinity ELSE a + b

MinInf(a, b) ==
    IF a = Infinity THEN b ELSE IF b = Infinity THEN a ELSE Min2(a, b)

\* the square root, rounded down
ISqrt(x) == CHOOSE r \in 0..x : r * r <= x /\ x < (r + 1) * (r + 1)

\* scipy's euclidean(u, v)
euclidean(u, v) ==
    ISqrt(SumSeq([c \in 1..Len(u) |-> (u[c] - v[c]) * (u[c] - v[c])]))

\* a boundary without its origin
BoundaryAllInfinite(i, j) == Infinity

\* the boundary row and column of dtw_matrix, lines 177-180
Boundary(i, j) == IF i = 0 /\ j = 0 THEN 0 ELSE Infinity

\* the loops of _dtw_distance, lines 183-190, from cell (i, j), row by row
RECURSIVE DtwFill(_, _, _, _, _)
DtwFill(feat1, feat2, dtw_matrix, i, j) ==
    IF i > Len(feat1) THEN dtw_matrix
    ELSE IF j > Len(feat2) THEN DtwFill(feat1, feat2, dtw_matrix, i + 1, 1)
    ELSE LET cost == euclidean(feat1[i], feat2[j])
             least == MinInf(dtw_matrix[<<i - 1, j>>],
                             MinInf(dtw_matrix[<<i, j - 1>>],
                                    dtw_matrix[<<i - 1, j - 1>>]))
         IN  DtwFill(feat1, feat2,
                     [dtw_matrix EXCEPT ![<<i, j>>] = AddInf(cost, least)], i, j + 1)

\* MFCCSimilarity._dtw_distance, lines 174-192
_dtw_distance(feat1, feat2) ==
    LET n == Len(feat1)
        m == Len(feat2)
        initial == [c \in (0..n) \X (0..m) |->
                       IF c[1] = 0 \/ c[2] = 0 THEN Boundary(c[1], c[2]) ELSE 0]
        dtw_matrix == DtwFill(feat1, feat2, initial, 1, 1)
    IN  <<dtw_matrix[<<n, m>>], n + m>>

\* coefficient vectors of a frame
Frames == {<<0, 0>>, <<3, 0>>, <<3, 4>>}

FeatureMatrices == SeqsUpTo(Frames, MaxFrames)

InitDtw ==
    /\ callArgs \in [op : {"_dtw_distance"},
                     feat1 : FeatureMatrices, feat2 : FeatureMatrices]
    /\ callResult = None
    /\ callPc = "ready"

DtwDistance ==
    /\ callPc = "ready"
    /\ callArgs.op = "_dtw_distance"
    /\ callResult' = _dtw_distance(callArgs.feat1, callArgs.feat2)
    /\ callPc' = "done"
    /\ UNCHANGED callArgs
    /\ CallStep

InitDtwCalls == InitDtw /\ CacheIdle /\ ThreadsIdle /\ ManagerIdle /\ EngineIdle /\ RandomIdle /\ BatchIdle

NextDtw == DtwDistance

SpecDtw == InitDtwCalls /\ [][NextDtw]_vars

(***************************************************************************)
(* RandomMatcher.  The generator np.random.RandomState(seed) is a linear   *)
(* congruential generator of RngModulus states; every draw advances it by  *)
(* one step.  Audio is described by its length in samples; times are in    *)
(* samples of the source.                                                  *)
(***************************************************************************)
\* RandomMatcher.__init__ default seed = 42
DefaultSeed == 42

\* number of states of the generator
RngModulus == 16

\* np.random.RandomState(seed)
RandomState(seed) == seed % RngModulus

\* the state after one draw
RngNext(state) == (5 * state + 3) % RngModulus

\* the generator find_similar_segments draws from: self.rng, lines 119, 130, 138
GeneratorOf(state) == state

\* rng.uniform(low, high), in hundredths: << value, state after >>
Uniform(state, low, high) ==
    LET after == RngNext(state)
    IN  <<low + ((high - low) * after) \div RngModulus, after>>

\* rng.choice(population, size, replace=False): << chosen, state after >>
RECURSIVE Choice(_, _, _, _)
Choice(state, population, size, chosen) ==
    IF size = 0 THEN <<chosen, state>>
    ELSE LET after == RngNext(state)
             i == (after % Len(population)) + 1
         IN  Choice(after, RemoveAt(population, i), size - 1,
                    Append(chosen, population[i]))

\* range(0, stop, step) for step > 0
RangeList(stop, step) ==
    [i \in 1..(IF stop <= 0 THEN 0 ELSE (stop + step - 1) \div step) |-> (i - 1) * step]

\* the loop that builds the matches, lines 126-141: << matches, state after >>
RECURSIVE RandomMatches(_, _, _, _, _, _)
RandomMatches(state, start_samples, window_samples, target_duration, i, matches) ==
    IF i > Len(start_samples) THEN <<matches, state>>
    ELSE LET similarity == Uniform(state, 50, 100)
             confidence == Uniform(similarity[2], 50, 100)
             match == SimilarityMatch(0, target_duration, start_samples[i],
                                      start_samples[i] + window_samples,
                                      similarity[1], confidence[1], NoMeta)
         IN  RandomMatches(confidence[2], start_samples, window_samples,
                           target_duration, i + 1, Append(matches, match))

\* RandomMatcher.find_similar_segments with weighted = False, lines 72-146,
\* on validated audio: << matches returned, self.rng after >>
random_find_similar_segments(self_rng, window_samples, source_length, top_k) ==
    LET max_start == source_length - window_samples
        step == window_samples \div 4
        start_samples == Choice(GeneratorOf(self_rng), RangeList(max_start, step),
                                Min2(top_k, max_start \div step), <<>>)
        made == RandomMatches(start_samples[2], start_samples[1], window_samples,
                              window_samples, 1, <<>>)
        sorted == SortBy(made[1], LAMBDA x, y : x.similarity > y.similarity)
    IN  IF max_start <= 0 THEN <<(<<>>), self_rng>>
        ELSE <<Take(sorted, top_k), made[2]>>

\* the arguments of a call: window, source length (in samples) and top_k
RandomArguments ==
    [window_samples : {4}, source_length : {3, 6, 8}, top_k : 1..MaxTopK]

\* RandomMatcher.__init__, lines 37-41
InitRandom ==
    /\ rng = RandomState(DefaultSeed)
    /\ calls = <<>>

\* one find_similar_segments call on the instance
RandomFindSimilarSegments ==
    /\ Len(calls) < MaxCalls
    /\ \E args \in RandomArguments :
          LET out == random_find_similar_segments(rng, args.window_samples,
                                                  args.source_length, args.top_k)
          IN  /\ calls' = Append(calls, [args |-> args, result |-> out[1]])
              /\ rng' = out[2]
    /\ RandomStep

InitRandomCalls ==
    InitRandom /\ CacheIdle /\ ThreadsIdle /\ CallsIdle /\ ManagerIdle /\ EngineIdle /\ BatchIdle

NextRandom == RandomFindSimilarSegments

SpecRandom == InitRandomCalls /\ [][NextRandom]_vars

(***************************************************************************)
(* The sliding-window search of the scoring algorithms (energy, spectral,  *)
(* rhythm, MFCC).  Audio is described by its length in samples and its     *)
(* rate in samples per time unit; segment lengths are in time units; the   *)
(* source times of a match are kept in samples (the code divides both by   *)
(* source_sr).  The score of each window is an input.                      *)
(***************************************************************************)
\* segment_min_length and segment_max_length of the algorithms searched
SegmentMinLength == 1

SegmentMaxLength == 3

\* BaseSimilarityAlgorithm._validate_audio, lines 160-171: the exception
\* raised, or "" for none
_validate_audio(length, sr) ==
    IF length = 0 THEN "ValueError"
    ELSE IF sr <= 0 THEN "ValueError"
    ELSE IF length < SegmentMinLength * sr THEN "ValueError"
    ELSE ""

\* int(window_duration * source_sr); clamps_minimum is set for the MFCC
\* search, which raises window_duration to segment_min_length
WindowSamples(target_length, target_sr, source_sr, clamps_minimum) ==
    LET target_duration == <<target_length, target_sr>>
        capped == IF FracGT(target_duration, <<SegmentMaxLength, 1>>)
                  THEN <<SegmentMaxLength, 1>> ELSE target_duration
        window_duration ==
            IF clamps_minimum /\ FracGT(<<SegmentMinLength, 1>>, capped)
            THEN <<SegmentMinLength, 1>> ELSE capped
    IN  (window_duration[1] * source_sr) \div window_duration[2]

\* a window start one sample late
StartSampleLate(i, step_samples) == i * step_samples + 1

\* start_sample = i * step_samples
StartSample(i, step_samples) == i * step_samples

\* the loop over the windows, from window i (0-based); scores[i + 1] is the
\* similarity computed for window i
RECURSIVE WindowLoop(_, _, _, _, _, _, _)
WindowLoop(source_length, window_samples, num_windows, target_duration, scores, i, matches) ==
    IF i >= num_windows THEN matches
    ELSE LET start_sample == StartSample(i, window_samples \div 2)
             end_sample == start_sample + window_samples
             match == SimilarityMatch(0, target_duration, start_sample, end_sample,
                                      scores[i + 1], 100, NoMeta)
         IN  IF end_sample > source_length THEN matches
             ELSE WindowLoop(source_length, window_samples, num_windows,
                             target_duration, scores, i + 1,
                             IF scores[i + 1] >= DefaultSimilarityThreshold
                             THEN Append(matches, match) ELSE matches)

\* the number of windows the search visits
NumWindowsOf(source_length, window_samples) ==
    ((source_length - window_samples) \div (window_samples \div 2)) + 1

\* find_similar_segments of a scoring algorithm
window_search(a, scores) ==
    LET window_samples == WindowSamples(a.target_length, a.target_sr, a.source_sr,
                                        a.clamps_minimum)
        self == Algorithm(DefaultSimilarityThreshold, DefaultConfidenceThreshold)
    IN  IF _validate_audio(a.target_length, a.target_sr) # ""
        THEN Raised("ValueError", "target_audio", <<>>)
        ELSE IF _validate_audio(a.source_length, a.source_sr) # ""
        THEN Raised("ValueError", "source_audio", <<>>)
        ELSE IF window_samples \div 2 = 0
        THEN Raised("ZeroDivisionError", "", <<>>)
        ELSE Returned(_filter_matches(self,
                          WindowLoop(a.source_length, window_samples,
                                     NumWindowsOf(a.source_length, window_samples),
                                     a.target_length, scores, 0, <<>>),
                          a.top_k), <<>>)

\* similarities a window can score, in hundredths
WindowSimilarities == {60, 80}

InitWindowSearch ==
    /\ callArgs \in [op : {"window_search"},
                     target_length : 0..MaxTargetLength, target_sr : 1..2,
                     source_length : 0..MaxSourceLength, source_sr : 1..2,
                     clamps_minimum : BOOLEAN, top_k : {MaxTopK}]
    /\ callResult = None
    /\ callPc = "ready"

WindowSearch ==
    /\ callPc = "ready"
    /\ callArgs.op = "window_search"
    /\ \E scores \in [1..MaxSourceLength -> WindowSimilarities] :
          callResult' = window_search(callArgs, scores)
    /\ callPc' = "done"
    /\ UNCHANGED callArgs
    /\ CallStep

InitWindowSearchCalls ==
    InitWindowSearch /\ CacheIdle /\ ThreadsIdle /\ ManagerIdle /\ EngineIdle /\ RandomIdle /\ BatchIdle

NextWindowSearch == WindowSearch

SpecWindowSearch == InitWindowSearchCalls /\ [][NextWindowSearch]_vars

(***************************************************************************)
(* SegmentMatcher.merge_close_segments on arbitrary lists of matches.      *)
(***************************************************************************)
\* SegmentMatcher.__init__ default min_segment_gap = 0.1
DefaultMinSegmentGap == 1

\* only overlapping segments count as close
OnlyOverlapping(gap, min_segment_gap) == gap < 0

\* if gap < self.min_segment_gap, line 151
TooClose(gap, min_segment_gap) == gap < min_segment_gap

\* metadata={'merged': True}
MergedMeta == [merged |-> TRUE]

\* the loop of merge_close_segments, lines 145-163, from position i
RECURSIVE MergeLoop(_, _, _, _)
MergeLoop(min_segment_gap, sorted_matches, i, merged) ==
    IF i > Len(sorted_matches) THEN merged
    ELSE LET current == sorted_matches[i]
             last == merged[Len(merged)]
             gap == current.source_start - last.source_end
             joined ==
                 SimilarityMatch(Min2(last.target_start, current.target_start),
                                 Max2(last.target_end, current.target_end),
                                 Min2(last.source_start, current.source_start),
                                 Max2(last.source_end, current.source_end),
                                 Max2(last.similarity, current.similarity),
                                 Min2(last.confidence, current.confidence),
                                 MergedMeta)
         IN  MergeLoop(min_segment_gap, sorted_matches, i + 1,
                       IF TooClose(gap, min_segment_gap)
                       THEN [merged EXCEPT ![Len(merged)] = joined]
                       ELSE Append(merged, current))

\* SegmentMatcher.merge_close_segments, lines 137-167
merge_close_segments(min_segment_gap, matches) ==
    IF matches = <<>> THEN <<>>
    ELSE LET sorted_matches ==
                 SortBy(matches, LAMBDA x, y : x.source_start < y.source_start)
         IN  MergeLoop(min_segment_gap, sorted_matches, 2, <<sorted_matches[1]>>)

MinSegmentGaps == {DefaultMinSegmentGap, 3}

\* matches to merge: << target_start, target_end, source_start, source_end,
\* similarity, confidence >>
MergeCandidates ==
    {SimilarityMatch(r[1], r[2], r[3], r[4], sc[1], sc[2], NoMeta) :
        r \in {<<0, 4, 0, 1>>, <<1, 5, 0, 4>>, <<0, 4, 3, 4>>, <<1, 3, 3, 7>>},
        sc \in {<<70, 100>>, <<90, 60>>}}

InitMerge ==
    /\ callArgs \in [op : {"merge_close_segments"},
                     min_segment_gap : MinSegmentGaps,
                     matches : SeqsUpTo(MergeCandidates, MaxMatches)]
    /\ callResult = None
    /\ callPc = "ready"

MergeCloseSegments ==
    /\ callPc = "ready"
    /\ callArgs.op = "merge_close_segments"
    /\ callResult' = merge_close_segments(callArgs.min_segment_gap, callArgs.matches)
    /\ callPc' = "done"
    /\ UNCHANGED callArgs
    /\ CallStep

InitMergeCalls ==
    InitMerge /\ CacheIdle /\ ThreadsIdle /\ ManagerIdle /\ EngineIdle /\ RandomIdle /\ BatchIdle

NextMerge == MergeCloseSegments

SpecMerge == InitMergeCalls /\ [][NextMerge]_vars

(***************************************************************************)
(* BatchProcessor.process_all on a fresh processor constructed with        *)
(* continue_on_error = True (the default).  The main thread runs the loop  *)
(* of process_all; the executor's workers run the submitted jobs and       *)
(* finish them at any time.  A job is [job_id, priority, dependencies,     *)
(* status, fails], where fails says whether its function raises.           *)
(***************************************************************************)
\* dataclass Job as add_job creates it: status "pending"
Job(job_id, priority, dependencies, fails) ==
    [job_id |-> job_id, priority |-> priority, dependencies |-> dependencies,
     status |-> "pending", fails |-> fails]

\* JobQueue.has_pending
has_pending(queue) == \E i \in 1..Len(queue) : queue[i].status = "pending"

\* every job counts as ready
DependenciesIgnored(job, completed) == TRUE

\* all(dep in completed_jobs for dep in job.dependencies), line 193
DependenciesMet(job, completed) == job.dependencies \subseteq completed

\* BatchProcessor._get_ready_jobs, lines 189-198
_get_ready_jobs(queue, completed) ==
    LET ready == SelectSeq(queue, LAMBDA job :
                     job.status = "pending" /\ DependenciesMet(job, completed))
    IN  SortBy(ready, LAMBDA x, y : x.priority > y.priority)

\* d[key] = value on a dict kept as << [key, value] >>
DictPut(d, key, value) ==
    IF \E i \in 1..Len(d) : d[i].key = key
    THEN [i \in 1..Len(d) |-> IF d[i].key = key THEN [key |-> key, value |-> value]
                               ELSE d[i]]
    ELSE Append(d, [key |-> key, value |-> value])

\* ResultAggregator.get_summary, lines 79-88
get_summary(agg_results, agg_errors) ==
    [total_count |-> Len(agg_results) + Len(agg_errors),
     success_count |-> Len(agg_results),
     error_count |-> Len(agg_errors)]

\* the status of the job with this id
WithStatus(queue, job_id, status) ==
    [i \in 1..Len(queue) |->
        IF queue[i].job_id = job_id THEN [queue[i] EXCEPT !.status = status]
        ELSE queue[i]]

\* the loop over done_futures, lines 124-149, from position i: the state
\* << jobs, completed_jobs, results, errors, handled >> it leaves
RECURSIVE CollectLoop(_, _, _)
CollectLoop(done_futures, i, state) ==
    IF i > Len(done_futures) THEN state
    ELSE LET job_id == done_futures[i].job_id
         IN  CollectLoop(done_futures, i + 1,
                 IF done_futures[i].raised
                 THEN [state EXCEPT
                          !.jobs = WithStatus(state.jobs, job_id, "failed"),
                          !.handled = Append(state.handled, job_id),
                          !.errors = DictPut(state.errors, job_id, "error")]
                 ELSE [state EXCEPT
                          !.jobs = WithStatus(state.jobs, job_id, "completed"),
                          !.completed = state.completed \cup {job_id},
                          !.results = DictPut(state.results, job_id, "result")])

\* the queues a processor is loaded with: job i is "job_i" and may depend
\* on the job queued before it
JobLists ==
    UNION {{[i \in 1..n |-> Job(i, c[i].priority,
                                IF c[i].depends /\ i > 1 THEN {i - 1} ELSE {},
                                c[i].fails)] :
               c \in [1..n -> [priority : 0..1, depends : BOOLEAN, fails : BOOLEAN]]} :
           n \in 0..MaxJobs}

\* add_job for every job, then process_all up to the loop, lines 96-109
InitBatch ==
    /\ jobs \in JobLists
    /\ futures = <<>>
    /\ completed_jobs = {}
    /\ aggregator_results = <<>>
    /\ aggregator_errors = <<>>
    /\ handled = <<>>
    /\ submitted = <<>>
    /\ executed = <<>>
    /\ batchPc = "loop"

\* lines 111-120: a round of the loop finds the ready jobs and submits them
SubmitReady ==
    /\ batchPc = "loop"
    /\ has_pending(jobs)
    /\ LET ready_jobs == _get_ready_jobs(jobs, completed_jobs)
           ids == [i \in 1..Len(ready_jobs) |-> ready_jobs[i].job_id]
       IN  /\ futures' = futures \o [i \in 1..Len(ids) |->
                             [job_id |-> ids[i], done |-> FALSE, raised |-> FALSE]]
           /\ jobs' = [i \in 1..Len(jobs) |->
                          IF \E k \in 1..Len(ids) : ids[k] = jobs[i].job_id
                          THEN [jobs[i] EXCEPT !.status = "running"] ELSE jobs[i]]
           /\ submitted' = IF ids = <<>> THEN submitted ELSE Append(submitted, ids)
    /\ batchPc' = "collect"
    /\ UNCHANGED <<completed_jobs, aggregator_results, aggregator_errors, handled,
                   executed>>
    /\ BatchStep

\* lines 123-159: the futures that are done are taken off and recorded
CollectDone ==
    /\ batchPc = "collect"
    /\ LET done_futures == SelectSeq(futures, LAMBDA f : f.done)
           after == CollectLoop(done_futures, 1,
                        [jobs |-> jobs, completed |-> completed_jobs,
                         results |-> aggregator_results,
                         errors |-> aggregator_errors, handled |-> handled])
       IN  /\ futures' = SelectSeq(futures, LAMBDA f : ~f.done)
           /\ jobs' = after.jobs
           /\ completed_jobs' = after.completed
           /\ aggregator_results' = after.results
           /\ aggregator_errors' = after.errors
           /\ handled' = after.handled
    /\ batchPc' = "loop"
    /\ UNCHANGED <<submitted, executed>>
    /\ BatchStep

\* line 111: no job is pending, the loop ends
ExitLoop ==
    /\ batchPc = "loop"
    /\ ~has_pending(jobs)
    /\ batchPc' = "shutdown"
    /\ UNCHANGED <<jobs, futures, completed_jobs, aggregator_results,
                   aggregator_errors, handled, submitted, executed>>
    /\ BatchStep

\* the end of the with block waits for the workers; lines 161-177 build the
\* summary and return
Return ==
    /\ batchPc = "shutdown"
    /\ \A i \in 1..Len(futures) : futures[i].done
    /\ batchPc' = "returned"
    /\ UNCHANGED <<jobs, futures, completed_jobs, aggregator_results,
                   aggregator_errors, handled, submitted, executed>>
    /\ BatchStep

\* a worker runs _execute_job for a submitted job, lines 213-225
ExecuteJob ==
    /\ \E i \in 1..Len(futures) :
          /\ ~futures[i].done
          /\ LET job == jobs[CHOOSE k \in 1..Len(jobs) :
                                jobs[k].job_id = futures[i].job_id]
             IN  futures' = [futures EXCEPT ![i] =
                                [job_id |-> job.job_id, done |-> TRUE,
                                 raised |-> job.fails]]
          /\ executed' = Append(executed, futures[i].job_id)
    /\ UNCHANGED <<jobs, completed_jobs, aggregator_results, aggregator_errors,
                   handled, submitted, batchPc>>
    /\ BatchStep

InitBatchCalls ==
    InitBatch /\ CacheIdle /\ ThreadsIdle /\ CallsIdle /\ ManagerIdle /\ EngineIdle /\ RandomIdle

ProcessAllStep == SubmitReady \/ CollectDone \/ ExitLoop \/ Return

NextBatch == SubmitReady \/ CollectDone \/ ExitLoop \/ Return \/ ExecuteJob

SpecBatch == InitBatchCalls /\ [][NextBatch]_vars

\* the main thread keeps running and every worker finishes its job
SpecBatchFair ==
    /\ InitBatchCalls
    /\ [][NextBatch]_vars
    /\ WF_vars(ProcessAllStep)
    /\ WF_vars(ExecuteJob)

(***************************************************************************)
(* AlgorithmManager._group_similar_matches on arbitrary lists of matches.  *)
(***************************************************************************)
\* matches to group: windows that start together and end apart, and a later one
GroupCandidates ==
    {SimilarityMatch(0, TargetDuration, r[1], r[2], 80, 100, NoMeta) :
        r \in {<<0, 10>>, <<0, 14>>, <<0, 18>>, <<3, 13>>}}

InitGroup ==
    /\ callArgs \in [op : {"_group_similar_matches"},
                     matches : SeqsUpTo(GroupCandidates, MaxMatches)]
    /\ callResult = None
    /\ callPc = "ready"

GroupSimilarMatches ==
    /\ callPc = "ready"
    /\ callArgs.op = "_group_similar_matches"
    /\ callResult' = _group_similar_matches(callArgs.matches)
    /\ callPc' = "done"
    /\ UNCHANGED callArgs
    /\ CallStep

InitGroupCalls ==
    InitGroup /\ CacheIdle /\ ThreadsIdle /\ ManagerIdle /\ EngineIdle /\ RandomIdle /\ BatchIdle

NextGroup == GroupSimilarMatches

SpecGroup == InitGroupCalls /\ [][NextGroup]_vars

(***************************************************************************)
(* SegmentExtractor.extract.  Times are in units of half the minimum       *)
(* segment length, the rate is in samples per unit; a buffer is described  *)
(* by its length and by the array that holds its samples.                  *)
(***************************************************************************)
\* SegmentExtractor.__init__ default min_segment_length = 0.1
ExtractorMinSegmentLength == 2

\* int(x / y) for y > 0: the quotient truncated toward zero
IntQuotient(x, y) == IF x >= 0 THEN x \div y ELSE 0 - ((0 - x) \div y)

\* audio[start:end] for start >= 0: the number of samples in the slice
SliceLength(length, start, end) ==
    LET first == Min2(start, length)
        last == Min2(IF end < 0 THEN Max2(length + end, 0) ELSE end, length)
    IN  Max2(last - first, 0)

\* SegmentExtractor.extract, lines 86-122, with fade and normalization at
\* their defaults; sample_rate is << samples, units >>, a quotient
extract(audio_length, sample_rate, start_time, end_time) ==
    LET start0 == Max2(0, IntQuotient(start_time * sample_rate[1], sample_rate[2]))
        end0 == Min2(audio_length,
                     IntQuotient(end_time * sample_rate[1], sample_rate[2]))
        \* duration < self.min_segment_length
        short == (end0 - start0) * sample_rate[2]
                     < ExtractorMinSegmentLength * sample_rate[1]
        needed_samples ==
            IntQuotient(ExtractorMinSegmentLength * sample_rate[1], sample_rate[2])
        expand == short /\ end0 - start0 < needed_samples
        diff == needed_samples - (end0 - start0)
        start_sample == IF expand THEN Max2(0, start0 - (diff \div 2)) ELSE start0
        end_sample == IF expand THEN Min2(audio_length, start_sample + needed_samples)
                      ELSE end0
        length == SliceLength(audio_length, start_sample, end_sample)
    IN  [raised |-> IF length = 0 THEN "ValueError" ELSE "",
         start_sample |-> start_sample, end_sample |-> end_sample,
         length |-> length,
         \* segment = audio[...].copy(): the fade writes into the copy
         written |-> "copy"]

InitExtract ==
    /\ callArgs \in [op : {"extract"}, audio_length : 0..MaxAudioLength,
                     sample_rate : {<<1, 1>>, <<2, 1>>},
                     start_time : (0 - 1)..MaxAudioLength,
                     end_time : (0 - 1)..MaxAudioLength]
    /\ callResult = None
    /\ callPc = "ready"

ExtractSegment ==
    /\ callPc = "ready"
    /\ callArgs.op = "extract"
    /\ callResult' = extract(callArgs.audio_length, callArgs.sample_rate,
                             callArgs.start_time, callArgs.end_time)
    /\ callPc' = "done"
    /\ UNCHANGED callArgs
    /\ CallStep

InitExtractCalls ==
    InitExtract /\ CacheIdle /\ ThreadsIdle /\ ManagerIdle /\ EngineIdle /\ RandomIdle /\ BatchIdle

NextExtract == ExtractSegment

SpecExtract == InitExtractCalls /\ [][NextExtract]_vars

(***************************************************************************)
(* Claims about the AlgorithmManager.                                      *)
(***************************************************************************)
\* the algorithms that voted for a fused match
Voters(m) == Range(m.metadata.algorithms)

\* C7: every match returned by ensemble_find_segments has confidence equal
\* to votes_received / algorithms_requested, votes_received being the number
\* of algorithms that agree on the group, and so a confidence between 0 and 1
C7_ConfidenceIsVoteShare ==
    (callPc = "done" /\ callArgs.op = "ensemble_find_segments" /\ callResult.raised = "")
    => \A i \in 1..Len(callResult.value) :
          LET m == callResult.value[i]
          IN  /\ m.confidence[1] * Len(callArgs.algorithm_names)
                    = Cardinality(Voters(m)) * m.confidence[2]
              /\ 0 <= m.confidence[1]
              /\ m.confidence[1] <= m.confidence[2]

\* C9: after any sequence of register calls the registry holds at most one
\* algorithm per name: get_algorithm returns the last instance registered
\* under a name (None for a name never registered), list_algorithms lists
\* each registered name once, and a registration leaves other names alone
C9_OneAlgorithmPerName ==
    /\ \A i, j \in 1..Len(_algorithms) :
          _algorithms[i].name = _algorithms[j].name => i = j
    /\ \A n \in AllNames :
          /\ get_algorithm(_algorithms, n) = registered[n]
          /\ Count(list_algorithms(_algorithms), n)
                = IF registered[n] = None THEN 0 ELSE 1

\* a default name was registered again and a new name was registered
C9_Witness ==
    /\ callPc = "done"
    /\ callArgs.op = "register"
    /\ callArgs.name = "mfcc"
    /\ registered["mfcc"] = Instance("EnergySimilarity", 6)
    /\ registered["custom"] = Instance("MFCCSimilarity", 7)
    /\ Len(_algorithms) = Len(default_algorithms) + 1

\* C10: find_similar_segments with a name that is not registered fails with
\* the algorithm-not-found error before any algorithm is run and leaves the
\* registry unchanged; get_algorithm with such a name returns None
C10_UnknownNameFailsBeforeSearch ==
    [][/\ (/\ callArgs'.op = "find_similar_segments"
           /\ callArgs'.name \notin DictKeys(_algorithms))
          => /\ callResult'.raised = "ValueError"
             /\ callResult'.message = "algorithm not found"
             /\ callResult'.ran = <<>>
             /\ _algorithms' = _algorithms
       /\ (/\ callArgs'.op = "get_algorithm"
           /\ callArgs'.name \notin DictKeys(_algorithms))
          => /\ callResult'.raised = ""
             /\ callResult'.value = None
             /\ _algorithms' = _algorithms]_vars

\* a search under an unregistered name has failed although the caller had
\* candidates to offer
C10_Witness ==
    /\ callPc = "done"
    /\ callArgs.op = "find_similar_segments"
    /\ callArgs.name = "nonexistent"
    /\ callArgs.candidates # <<>>
    /\ callResult.raised = "ValueError"
    /\ Len(_algorithms) = Len(default_algorithms) + 1

\* the configuration of an ensemble call is valid: some algorithm is named,
\* the weights (when given) are one per name, the voting method is supported
ValidEnsembleConfiguration(args) ==
    /\ args.algorithm_names # <<>>
    /\ args.weights # None => Len(args.weights) = Len(args.algorithm_names)
    /\ args.voting_method \in VotingMethods

EnsembleDone == callPc = "done" /\ callArgs.op = "ensemble_find_segments"

\* C11: ensemble_find_segments rejects every invalid configuration with an
\* error, whatever the algorithms find: an empty algorithm list, a weight
\* list of another length than the algorithm list and an unsupported voting
\* method each always raise, also when the search produces no matches
C11_InvalidConfigurationAlwaysRaises ==
    (EnsembleDone /\ ~ValidEnsembleConfiguration(callArgs))
    => callResult.raised = "ValueError"

\* C13: in an ensemble run the failure of one named algorithm does not abort
\* the run: the call returns, and every algorithm that can run has run
C13_EnsembleSurvivesAlgorithmFailure ==
    (EnsembleDone /\ ValidEnsembleConfiguration(callArgs))
    => /\ callResult.raised = ""
       /\ callResult.ran = SelectSeq(callArgs.algorithm_names,
                                     LAMBDA n : n \in DictKeys(_algorithms))

BenchmarkDone == callPc = "done" /\ callArgs.op = "benchmark_algorithms"

\* the search at position k of a benchmark fails: the name is not registered
\* or the algorithm raises
BenchmarkFails(names, k) ==
    \/ names[k] \notin DictKeys(_algorithms)
    \/ callArgs.outcomes[k].raised # ""

\* C12: benchmark_algorithms isolates failures per algorithm: the result has
\* exactly one entry per requested name; an algorithm that fails (an
\* unregistered name included) has success = False and the error text, and
\* every other algorithm is still run and has its own success entry
C12_OneEntryPerRequestedName ==
    BenchmarkDone
    => LET names == BenchmarkNames(_algorithms, callArgs.algorithm_names)
           results == callResult.value
       IN  /\ callResult.raised = ""
           /\ callResult.ran = names
           /\ {results[i].name : i \in 1..Len(results)} = Range(names)
           /\ \A i, j \in 1..Len(results) : results[i].name = results[j].name => i = j
           /\ \A k \in 1..Len(names) :
                 (\A j \in (k + 1)..Len(names) : names[j] # names[k])
                 => \E i \in 1..Len(results) :
                       /\ results[i].name = names[k]
                       /\ IF BenchmarkFails(names, k)
                          THEN /\ results[i].entry.success = FALSE
                               /\ results[i].entry.error # ""
                          ELSE /\ results[i].entry.success = TRUE
                               /\ results[i].entry.num_matches
                                     = Len(callArgs.outcomes[k].candidates)

\* a benchmark of an unregistered name followed by an algorithm that finds
\* matches
C12_Witness ==
    /\ BenchmarkDone
    /\ callArgs.algorithm_names # None
    /\ Len(callArgs.algorithm_names) = 2
    /\ callArgs.algorithm_names[1] = "nonexistent"
    /\ callArgs.algorithm_names[2] = "energy"
    /\ callResult.raised = ""
    /\ Len(callResult.value) = 2
    /\ callResult.value[1].entry.success = FALSE
    /\ callResult.value[2].entry.success = TRUE
    /\ callResult.value[2].entry.num_matches > 0

(***************************************************************************)
(* Claims about CollageEngine.synthesize.                                  *)
(***************************************************************************)
Synthesizing == callPc # "idle" /\ callArgs.op = "synthesize"

SynthesizeDone == callPc = "done" /\ callArgs.op = "synthesize"

\* the stages a call with these flags has to run, in order
ExpectedStages(args) ==
    <<"SEARCH", "SELECT_BEST", "EXTRACT">>
        \o (IF args.adjust_tempo THEN <<"TEMPO">> ELSE <<>>)
        \o (IF args.adjust_pitch THEN <<"PITCH">> ELSE <<>>)
        \o (IF args.match_prosody THEN <<"PROSODY">> ELSE <<>>)
        \o (IF args.enhance_quality THEN <<"ENHANCE">> ELSE <<>>)
        \o <<"NORMALIZE", "DONE">>

IsPrefix(s, t) == Len(s) <= Len(t) /\ s = SubSeq(t, 1, Len(s))

\* C14: every synthesize call runs its stages in the order SEARCH,
\* SELECT_BEST, EXTRACT, TEMPO, PITCH, PROSODY, ENHANCE, NORMALIZE, DONE: no
\* stage runs before the stages ahead of it, and each of TEMPO, PITCH,
\* PROSODY and ENHANCE runs exactly once if its flag is set and not at all
\* if it is clear
C14_StagesInFixedOrder ==
    Synthesizing
    => /\ IsPrefix(stages, ExpectedStages(callArgs))
       /\ callPc = "done" => stages = ExpectedStages(callArgs)

\* a call with tempo and enhancement on, pitch and prosody off, has finished
C14_Witness ==
    /\ SynthesizeDone
    /\ callArgs.adjust_tempo /\ ~callArgs.adjust_pitch
    /\ ~callArgs.match_prosody /\ callArgs.enhance_quality
    /\ stages = <<"SEARCH", "SELECT_BEST", "EXTRACT", "TEMPO", "ENHANCE",
                  "NORMALIZE", "DONE">>

\* fraction a is at most fraction b
FracLE(a, b) == a[1] * b[2] <= b[1] * a[2]

\* C15: the fractions passed to the progress callback during one synthesize
\* call never decrease, each lies in [0, 1], and a call that completes
\* reports 1.0 last
C15_ProgressMonotone ==
    Synthesizing
    => /\ \A k \in 1..(Len(progress) - 1) : FracLE(progress[k], progress[k + 1])
       /\ \A k \in 1..Len(progress) :
             FracLE(<<0, 1>>, progress[k]) /\ FracLE(progress[k], <<1, 1>>)
       /\ callPc = "done"
             => /\ progress # <<>>
                /\ FracLE(<<1, 1>>, progress[Len(progress)])

\* a call on two source files with prosody matching and enhancement on has
\* finished after eight reports
C15_Witness ==
    /\ SynthesizeDone
    /\ Len(callArgs.source_files) = 2
    /\ callArgs.match_prosody /\ callArgs.enhance_quality
    /\ Len(progress) = 8

\* the search of a synthesize call finds no match in any source file
NothingFound(args) == \A k \in 1..Len(args.source_files) : args.found[k] = <<>>

\* C16: when the algorithm yields no match in any source file (an empty
\* source list included) synthesize fails with the no-match error after
\* SEARCH: no later stage runs and no final 1.0 is reported
C16_NoMatchFailsAfterSearch ==
    (Synthesizing /\ callPc # "ready" /\ NothingFound(callArgs))
    => /\ callPc = "failed"
       /\ callResult.raised = "ValueError"
       /\ callResult.message = "no similar segment found"
       /\ stages = <<"SEARCH">>
       /\ \A k \in 1..Len(progress) : ~FracLE(<<1, 1>>, progress[k])
       /\ best_match = None /\ segment = None /\ adjusted = None

\* a call on two source files without any match has failed
C16_Witness ==
    /\ callPc = "failed"
    /\ callArgs.op = "synthesize"
    /\ Len(callArgs.source_files) = 2
    /\ NothingFound(callArgs)
    /\ Len(progress) = 3

\* match m is match x of the search, whatever its metadata
SameMatch(m, x) ==
    /\ m.similarity = x.similarity
    /\ m.source_start = x.source_start
    /\ m.source_end = x.source_end

\* C17: SELECT_BEST picks a global argmax: the match synthesize extracts has
\* a similarity at least that of every match found in every source file, the
\* segment is cut from the file that produced it, and the metadata returned
\* names that file and that match's similarity and source range
C17_BestMatchIsGlobalArgmax ==
    (Synthesizing /\ best_match # None)
    => /\ \A k \in 1..Len(callArgs.source_files) :
             \A j \in 1..Len(callArgs.found[k]) :
                 best_match.similarity >= callArgs.found[k][j].similarity
       /\ segment # None
             => /\ \E k \in 1..Len(callArgs.source_files) :
                      /\ callArgs.source_files[k] = segment.source_file
                      /\ \E j \in 1..Len(callArgs.found[k]) :
                            SameMatch(best_match, callArgs.found[k][j])
                /\ segment.source_start = best_match.source_start
                /\ segment.source_end = best_match.source_end
       /\ callPc = "done"
             => /\ callResult.value.metadata.source_file = segment.source_file
                /\ callResult.value.metadata.similarity = best_match.similarity
                /\ callResult.value.metadata.source_start = best_match.source_start
                /\ callResult.value.metadata.source_end = best_match.source_end

\* the best match came from the second source file, behind a match of the
\* first
C17_Witness ==
    /\ SynthesizeDone
    /\ callArgs.source_files = <<"a.wav", "b.wav">>
    /\ callArgs.found[1] # <<>>
    /\ callResult.value.metadata.source_file = "b.wav"
    /\ callResult.value.metadata.similarity = 90

\* C18: the buffer synthesize returns has no sample above 1.0 in absolute
\* value: a peak above 1.0 after the last enabled stage is rescaled to a
\* 0.99 peak by the final normalization, any other buffer is left as it is
C18_NoSampleAboveFullScale ==
    /\ [](SynthesizeDone
            => \A k \in 1..Len(callResult.value.audio) :
                  Abs(callResult.value.audio[k]) <= FullScale)
    /\ [][callPc = "normalize"
            => IF Peak(adjusted) > FullScale
               THEN Peak(adjusted') = NormalizedPeak
               ELSE adjusted' = adjusted]_vars

\* a call with enhancement on has returned a buffer rescaled to the 0.99 peak
C18_Witness ==
    /\ SynthesizeDone
    /\ callArgs.enhance_quality
    /\ Peak(callResult.value.audio) = NormalizedPeak

(***************************************************************************)
(* Claims about the AudioBlender.                                          *)
(***************************************************************************)
\* len(a) + len(b) - crossfade_samples, the fade clamped to the shorter buffer
CrossfadeLength(configured, len1, len2) ==
    len1 + len2 - Min2(configured, Min2(len1, len2))

\* the length after folding segments i.. onto a buffer of the given length
RECURSIVE FoldedLength(_, _, _, _)
FoldedLength(configured, segments, i, length) ==
    IF i > Len(segments) THEN length
    ELSE FoldedLength(configured, segments, i + 1,
                      CrossfadeLength(configured, length, Len(segments[i])))

BlendDone ==
    /\ callPc = "done"
    /\ callArgs.op \in {"crossfade", "blend_segments"}
    /\ callArgs.blend_algorithm \in BlendAlgorithms

\* C19: for every supported blend algorithm and all buffer lengths, crossfade
\* returns a buffer of length len(a) + len(b) - crossfade_samples,
\* crossfade_samples being the configured fade length clamped to the shorter
\* buffer, and blend_segments over N segments folds this pairwise from left
\* to right
C19_CrossfadeLength ==
    (BlendDone /\ callArgs.segments # <<>>)
    => /\ callResult.raised = ""
       /\ Len(callResult.value)
             = FoldedLength(callArgs.configured, callArgs.segments, 2,
                            Len(callArgs.segments[1]))

\* three segments were blended with a fade that the middle one clamps
C19_Witness ==
    /\ BlendDone
    /\ callArgs.op = "blend_segments"
    /\ callArgs.blend_algorithm = "spectral"
    /\ callArgs.configured = 2
    /\ Len(callArgs.segments) = 3
    /\ Len(callArgs.segments[1]) = 3
    /\ Len(callArgs.segments[2]) = 1
    /\ Len(callArgs.segments[3]) = 3
    /\ Len(callResult.value) = 4

(***************************************************************************)
(* Claims about the DTW distance.                                          *)
(***************************************************************************)
DtwDone == callPc = "done" /\ callArgs.op = "_dtw_distance"

\* C20: the DTW distance of the recurrence D[i][j] = cost(i, j) +
\* min(D[i-1][j], D[i][j-1], D[i-1][j-1]) with D[0][0] = 0 and the rest of
\* the boundary at infinity, normalized by n + m, is exactly 0 between any
\* non-empty feature matrix and itself
C20_DtwIdentity ==
    (DtwDone /\ callArgs.feat1 # <<>> /\ callArgs.feat2 = callArgs.feat1)
    => /\ callResult[1] = 0
       /\ callResult[2] > 0

\* the distance of a matrix of differing frames to itself has been computed
C20_Witness ==
    /\ DtwDone
    /\ callArgs.feat1 = callArgs.feat2
    /\ Len(callArgs.feat1) >= 2
    /\ callArgs.feat1[1] # callArgs.feat1[2]
    /\ callResult[1] = 0

(***************************************************************************)
(* Claims about the RandomMatcher.                                         *)
(***************************************************************************)
\* C21: two find_similar_segments calls with identical inputs on the same
\* RandomMatcher instance return identical matches, however many calls were
\* made before
C21_SameInputsSameMatches ==
    \A i, j \in 1..Len(calls) :
        calls[i].args = calls[j].args => calls[i].result = calls[j].result


(***************************************************************************)
(* Claims about the sliding-window search.                                 *)
(***************************************************************************)
WindowSearchDone == callPc = "done" /\ callArgs.op = "window_search"

WindowSearchValidated ==
    /\ _validate_audio(callArgs.target_length, callArgs.target_sr) = ""
    /\ _validate_audio(callArgs.source_length, callArgs.source_sr) = ""

WindowOfCall ==
    WindowSamples(callArgs.target_length, callArgs.target_sr, callArgs.source_sr,
                  callArgs.clamps_minimum)

\* C22: when the validated source is shorter than one window the search
\* returns an empty list and raises nothing; otherwise every emitted match
\* starts at a multiple of the hop (window // 2) and satisfies
\* 0 <= source_start < source_end <= source length
C22_WindowsStayInsideSource ==
    (WindowSearchDone /\ WindowSearchValidated)
    => IF callArgs.source_length < WindowOfCall
       THEN callResult = Returned(<<>>, <<>>)
       ELSE \A k \in 1..Len(callResult.value) :
               LET match == callResult.value[k]
               IN  /\ 0 <= match.source_start
                   /\ match.source_start < match.source_end
                   /\ match.source_end <= callArgs.source_length
                   /\ match.source_start % (WindowOfCall \div 2) = 0

\* a search returned a match of the last window, which ends with the source
C22_Witness ==
    /\ WindowSearchDone
    /\ WindowSearchValidated
    /\ callArgs.source_length >= WindowOfCall
    /\ \E k \in 1..Len(callResult.value) :
          /\ callResult.value[k].source_start > 0
          /\ callResult.value[k].source_end = callArgs.source_length


(***************************************************************************)
(* Claims about SegmentMatcher.merge_close_segments.                       *)
(***************************************************************************)
MergeDone == callPc = "done" /\ callArgs.op = "merge_close_segments"

\* the positions of the input matches merged into the k-th returned match:
\* those that start at or after it and before the next returned match
MergedInto(k) ==
    {i \in 1..Len(callArgs.matches) :
        /\ callArgs.matches[i].source_start >= callResult[k].source_start
        /\ k < Len(callResult) =>
              callArgs.matches[i].source_start < callResult[k + 1].source_start}

\* C23: merge_close_segments returns matches in ascending source_start
\* order, consecutive ones at least min_segment_gap apart, each spanning the
\* union of the time ranges of the input matches merged into it, with the
\* maximum of their similarities and the minimum of their confidences
C23_MergedSegmentsApartAndSpanning ==
    MergeDone =>
        /\ (callArgs.matches = <<>>) <=> (callResult = <<>>)
        /\ \A k \in 1..(Len(callResult) - 1) :
              /\ callResult[k].source_start <= callResult[k + 1].source_start
              /\ callResult[k + 1].source_start - callResult[k].source_end
                     >= callArgs.min_segment_gap
        /\ \A i \in 1..Len(callArgs.matches) : \E k \in 1..Len(callResult) : i \in MergedInto(k)
        /\ \A k \in 1..Len(callResult) :
              LET out == callResult[k]
                  members == {callArgs.matches[i] : i \in MergedInto(k)}
              IN  /\ members # {}
                  /\ \E m \in members : m.source_start = out.source_start
                  /\ \E m \in members : m.source_end = out.source_end
                  /\ \E m \in members : m.target_start = out.target_start
                  /\ \E m \in members : m.target_end = out.target_end
                  /\ \E m \in members : m.similarity = out.similarity
                  /\ \E m \in members : m.confidence = out.confidence
                  /\ \A m \in members :
                        /\ out.source_start <= m.source_start
                        /\ m.source_end <= out.source_end
                        /\ out.target_start <= m.target_start
                        /\ m.target_end <= out.target_end
                        /\ m.similarity <= out.similarity
                        /\ out.confidence <= m.confidence

\* three matches came back as two: two were merged, the third stayed apart
C23_Witness ==
    /\ MergeDone
    /\ Len(callArgs.matches) = 3
    /\ Len(callResult) = 2
    /\ \E k \in 1..2 :
          /\ callResult[k].metadata = MergedMeta
          /\ Cardinality({callArgs.matches[i] : i \in MergedInto(k)}) = 2
    /\ callResult[2].source_start - callResult[1].source_end >= callArgs.min_segment_gap


(***************************************************************************)
(* Claims about BatchProcessor.process_all.                                *)
(***************************************************************************)
StatusOf(queue, job_id) ==
    queue[CHOOSE k \in 1..Len(queue) : queue[k].job_id = job_id].status

\* C24: a job is never submitted before every job it depends on has
\* completed successfully, and the jobs submitted in one scheduling round
\* are submitted in descending priority
C24_SubmittedAfterDependenciesByPriority ==
    [][\A i \in 1..Len(jobs) :
          (jobs[i].status = "pending" /\ jobs'[i].status = "running")
          => /\ \A dep \in jobs[i].dependencies : StatusOf(jobs, dep) = "completed"
             /\ \E k \in 1..Len(submitted'[Len(submitted')]) :
                   LET round == submitted'[Len(submitted')]
                   IN  /\ round[k] = jobs[i].job_id
                       /\ \A l \in 1..(k - 1) :
                             jobs[round[l]].priority >= jobs[i].priority]_vars

\* a job was submitted after the job it depends on completed, and a round
\* submitted a job of higher priority before one of lower priority that was
\* queued first
C24_Witness ==
    /\ \E i \in 1..Len(jobs) :
          /\ jobs[i].dependencies # {}
          /\ jobs[i].status = "running"
    /\ \E r \in 1..Len(submitted) :
          /\ Len(submitted[r]) >= 2
          /\ submitted[r][1] > submitted[r][2]


BatchReturned == batchPc = "returned"

BatchKeys(d) == {d[i].key : i \in 1..Len(d)}

\* C25: with continue_on_error = True, when process_all returns every queued
\* job has been executed exactly once and ended either completed, recorded
\* in results, or failed, recorded in errors and in the error handler, and
\* the summary has total_count = success_count + error_count = number of
\* queued jobs
C25_EveryJobExecutedAndRecorded ==
    BatchReturned =>
        /\ \A i \in 1..Len(jobs) :
              /\ Count(executed, jobs[i].job_id) = 1
              /\ \/ /\ jobs[i].status = "completed"
                    /\ jobs[i].job_id \in BatchKeys(aggregator_results)
                    /\ jobs[i].job_id \notin BatchKeys(aggregator_errors)
                 \/ /\ jobs[i].status = "failed"
                    /\ jobs[i].job_id \in BatchKeys(aggregator_errors)
                    /\ jobs[i].job_id \notin BatchKeys(aggregator_results)
                    /\ Count(handled, jobs[i].job_id) = 1
        /\ LET summary == get_summary(aggregator_results, aggregator_errors)
           IN  /\ summary.total_count = summary.success_count + summary.error_count
               /\ summary.total_count = Len(jobs)

\* C27: for acyclic dependencies on queued jobs, process_all with
\* continue_on_error = True eventually returns and leaves no job pending or
\* running, also when a job that other jobs depend on fails
C27_ProcessAllReturnsWithNoJobLeft ==
    <>(BatchReturned /\ \A i \in 1..Len(jobs) : jobs[i].status \in {"completed", "failed"})


(***************************************************************************)
(* Claims about AlgorithmManager._group_similar_matches.                   *)
(***************************************************************************)
GroupDone == callPc = "done" /\ callArgs.op = "_group_similar_matches"

\* the groups as a set, each group as the number of times it holds each match
GroupsAsSet(groups) ==
    {[m \in Range(groups[g]) |-> Count(groups[g], m)] : g \in 1..Len(groups)}

\* the list in another order
Reordered(s, p) == [i \in 1..Len(s) |-> s[p[i]]]

\* C26: _group_similar_matches puts every match in exactly one group, and
\* for the same collection of matches it produces the same groups whatever
\* order the matches are supplied in, also when several matches share the
\* same source_start
C26_GroupsIndependentOfOrder ==
    GroupDone =>
        /\ \A m \in Range(callArgs.matches) :
              Count(Concat(callResult), m) = Count(callArgs.matches, m)
        /\ \A p \in Permutations(1..Len(callArgs.matches)) :
              GroupsAsSet(_group_similar_matches(Reordered(callArgs.matches, p)))
                  = GroupsAsSet(callResult)


(***************************************************************************)
(* A further claim about the SegmentCache.                                 *)
(***************************************************************************)
\* C28: a put whose key is already cached replaces only that key's value:
\* every other cached entry is still present afterwards and the number of
\* entries is unchanged, also when the cache is at capacity
C28_PutOfCachedKeyKeepsOtherEntries ==
    [][\A f \in SourceFiles, s \in StartTimes, e \in EndTimes :
          (/\ _generate_key(f, s, e) \in CacheKeys(cache)
           /\ Put(f, s, e, SampleRateOf(f)))
          => /\ CacheKeys(cache') = CacheKeys(cache)
             /\ Len(cache') = Len(cache)]_vars


(***************************************************************************)
(* Claims about SegmentExtractor.extract.                                  *)
(***************************************************************************)
ExtractDone == callPc = "done" /\ callArgs.op = "extract"

\* the minimum segment length in samples at the rate of the call
NeededSamples ==
    IntQuotient(ExtractorMinSegmentLength * callArgs.sample_rate[1],
                callArgs.sample_rate[2])

\* C30: for every time range and every buffer, extract reads only samples
\* inside [0, len(audio)] with start <= end, never modifies the caller's
\* buffer, and, whenever the buffer is at least min_segment_length long,
\* returns a segment at least min_segment_length long, also for a range at
\* the very end of the buffer
C30_ExtractStaysInsideAndLongEnough ==
    ExtractDone =>
        /\ 0 <= callResult.start_sample
        /\ callResult.start_sample <= callResult.end_sample
        /\ callResult.end_sample <= callArgs.audio_length
        /\ callResult.written # "audio"
        /\ callArgs.audio_length >= NeededSamples
               => /\ callResult.raised = ""
                  /\ callResult.length >= NeededSamples


(***************************************************************************)
(* Claims about AlgorithmManager.find_similar_segments with overlap        *)
(* removal.                                                                *)
(***************************************************************************)
OverlapQueryDone ==
    /\ callPc = "done"
    /\ callArgs.op = "find_similar_segments"
    /\ callArgs.remove_overlaps
    /\ callArgs.top_k >= 1
    /\ callResult.raised = ""

\* what the algorithm returned to the manager, and what overlap removal kept
ProducedMatches ==
    AlgorithmSearch(get_algorithm(_algorithms, callArgs.name),
                    callArgs.candidates, callArgs.top_k * 2)

SurvivingMatches ==
    IF ProducedMatches = <<>> THEN <<>>
    ELSE remove_overlaps(DefaultOverlapThreshold, ProducedMatches, "source")

\* C29: with overlap removal requested, the returned list contains the
\* highest-similarity match the algorithm produced and is the top_k best of
\* the surviving matches: no survivor is left out in favour of a returned
\* match of lower similarity
C29_BestMatchReturnedAfterOverlapRemoval ==
    OverlapQueryDone =>
        LET returned == Range(callResult.value)
        IN  /\ \A p \in Range(ProducedMatches) :
                   \E r \in returned : r.similarity >= p.similarity
            /\ \A s \in Range(SurvivingMatches) \ returned :
                   \A r \in returned : r.similarity >= s.similarity

=============================================================================
